---- MODULE Spec2Model ----
(***************************************************************************)
(* Model of the WSJ financial-statement updater.                           *)
(*   - WSJScraper.get_statement_data   (src/wsj_updater.py)                *)
(*   - SourceFormatChecker             (src/source_format_checker.py)      *)
(*   - WSJCleaner and the two main()   (src/wsj_cleaner.py,                *)
(*                                      src/scrape_financial_data.py)      *)
(* Each component has its own specification; the variables of the other    *)
(* components stay at their initial values.                                *)
(***************************************************************************)
EXTENDS Integers, Sequences, FiniteSets, TLC

(* ---------------------------------------------------------------------- *)
(* Bounds                                                                  *)
(* ---------------------------------------------------------------------- *)
NumSymbols == 3     \* symbols handed to one get_statement_data pass
MaxDate == 2        \* period-end dates are 1..MaxDate, larger = newer
MaxLen == 2         \* longest header date sequence of a page, multi-symbol pass
CutoffLen == 3      \* longest header date sequence, single-symbol pass
MaxRows == 1        \* mapped rows of one sub-table
NumProfiles == 2    \* rows of idx_company_profile the resolver starts from
NumRecords == 2     \* rows of the raw table a cleaner is built on
BatchSize == 1      \* records of one batch of the batched upsert
MaxLead == 2        \* digits before the first thousands separator of a cell
RowCells == 2       \* cells of the row get_rowsdata converts
MaxCleans == 2      \* calls of clean() on one cleaner
RuleRows == 2       \* rows of the table the cleaning rules are applied to
RateSymbols == 13   \* symbols of one pass under the rate limiter
NumPasses == 2      \* passes of one run under the rate limiter
MaxClock == 5       \* seconds the clock of the rate limiter runs

(* ---------------------------------------------------------------------- *)
(* Values                                                                  *)
(* ---------------------------------------------------------------------- *)
\* A cell value: None/NaN, a number, or a string the scraper passed through
\* ('-' and '' come out of convert_abbr unchanged).
None == [t |-> "None", n |-> 0, s |-> ""]

Val(n) == [t |-> "num", n |-> n, s |-> ""]

Str(x) == [t |-> "str", n |-> 0, s |-> x]

Hyphen == Str("-")

Num == Val(1)                       \* a parsed numeric cell of the scraper
Unset == 0                          \* wsj_format NaN / NULL
NoDate == 0                         \* dblatest_date = None
NoneDict == << >>                   \* symbol_dd = None (falsy, no keys)
EmptyDF == << >>                    \* pd.DataFrame(): no columns, no rows

AllSymbols == <<"AAA.JK", "BBB.JK", "CCC.JK", "DDD.JK">>
Dates == 1..MaxDate
Statements == {"income-statement", "balance-sheet", "cash-flow"}

\* two canonical MetricFields of each statement's label dictionary
target_metrics(stmt) ==
    CASE stmt = "income-statement" -> {"total_revenue", "net_income"}
      [] stmt = "balance-sheet"    -> {"total_assets", "total_liabilities"}
      [] OTHER                     -> {"net_operating_cash_flow", "free_cash_flow"}

VARIABLES
    \* ---- WSJScraper ----
    symbols,            \* self.symbols, the list the pass iterates over
    statement,          \* self.statement
    latest_date_df,     \* symbol -> last_date (SyncCursor); empty = None/no rows
    header_max,         \* environment: longest header date row the site serves
    idx,                \* position of the for loop in self.symbols
    result_dict,        \* self.result_dict: column name -> list
    symbol_dd,          \* local symbol_dd, kept across loop iterations
    dates,              \* local dates, kept across loop iterations
    missing_symbols,    \* self.missing_symbols
    completed_symbols,  \* self.completed_symbols
    df,                 \* local df, the frame built at the last merge
    raw_data,           \* self.raw_data
    warned,             \* symbols a warning was logged for (handle_error)
    hist,               \* history: what the current/last iteration read and appended
    spc,                \* "fetch" | "table1" | "table2" | "table3" | "merge" |
                        \* "returned" | "raised"
    exc,                \* exception that left get_statement_data
    attempts,           \* history: requests.get calls made for the symbol of hist
    repeated,           \* history: a header read in this pass showed a date twice
    skipped             \* history: symbols the pass left at line 290 (already current)

VARIABLES
    \* ---- SourceFormatChecker ----
    check_symbols,      \* self.check_symbols
    todo,               \* symbols the for loop of check_wsj_format has not reached
    cur,                \* loop variable symbol
    probe,              \* next (period, statement) pair, 1..4; 5 = loops left
    found_flag,         \* local found_flag
    tables,             \* local tables, kept across symbols
    format_data,        \* self.format_data as a list of (symbol, wsj_format)
    probed,             \* history: probes made for cur, with their outcomes
    pages,              \* the discriminant line items on cur's pages, per period
    rpc,                \* "idle" | "probing" | "checked" | "updated" | "raised"
    rret                \* return value of update_format_to_database

rvars == <<check_symbols, todo, cur, probe, found_flag, tables,
           format_data, probed, pages, rpc, rret>>

VARIABLES
    \* ---- the store (Supabase) ----
    profile,            \* table idx_company_profile: symbol -> row
    financials,         \* table idx_financials_quarterly_wsj: set of rows
    writes              \* history: wsj_format writes made to idx_company_profile

dbvars == <<profile, financials, writes>>

VARIABLES
    \* ---- WSJCleaner and main ----
    result_df,          \* the raw table scrape_wsj returned
    rejected,           \* environment: dates of the rows whose upsert the store refuses
    mpc,                \* "start" | "built" | "crashed" | "exited"
    cleaner_raw_data,   \* self.raw_data of the cleaner
    ticker_info,        \* self.ticker_info: symbol -> wsj_format_db
    profile_data,       \* self.profile_data: list of (symbol, wsj_format)
    clean_data,         \* self.clean_data: [none, rows]
    clean_flag,         \* self.clean_flag
    clashed_symbols,    \* self.clashed_symbols
    new_format_symbols, \* self.new_format_symbols
    changed_flag,       \* self.changed_flag
    files,              \* data files written: [name, rows]
    format_file,        \* content of data/wsj_format_data.csv, << >> = not written
    handed,             \* history: the records last handed to the profile upsert
    sent,               \* history: the records last handed to the financials upsert
    cleaned,            \* history: how the last clean() ended: "" | "ok" |
                        \* "nulls" | "enrich" | "cast"
    db_success_flag,    \* what save_data_to_database last returned, "" = not called
    profile_ret,        \* what save_profile_to_database last returned, "" = not called
    cleans              \* history: calls of clean() made on this cleaner

cvars == <<result_df, rejected, mpc, cleaner_raw_data, ticker_info, profile_data,
           clean_data, clean_flag, clashed_symbols, new_format_symbols,
           changed_flag, files, format_file, handed, sent, cleaned,
           db_success_flag, profile_ret, cleans>>

svars == <<symbols, statement, latest_date_df, header_max, idx, result_dict, symbol_dd,
           dates, missing_symbols, completed_symbols, df, raw_data, warned,
           hist, spc, exc, attempts, repeated, skipped>>

\* the rate limiter wrapped around get_statement_data, and the clock
VARIABLES
    now,                \* the clock, in seconds
    num_calls,          \* limiter: calls counted in the current period
    last_reset,         \* limiter: start of the current period
    request_log,        \* history: requests.get calls issued at each second
    rate_pos,           \* position of the running pass in its symbol list, 0 outside
    rate_pass           \* passes finished

tvars == <<now, num_calls, last_reset, request_log, rate_pos, rate_pass>>

\* get_rowsdata converting the cells of one mapped row of a first sub-table
VARIABLES
    col_values,         \* the texts of the row's cells, each a sequence of characters
    eps_true,           \* whether the row's field name holds 'eps'
    converted,          \* the values the list comprehension of line 241 has built
    conv_warned,        \* cells handle_error was called for inside convert_abbr
    row_missing,        \* whether the row's symbol was added to missing_symbols
    ppc                 \* "convert", "raised", "stored", "missing"

pvars == <<col_values, eps_true, converted, conv_warned, row_missing, ppc>>

\* the three parts of WSJCleaner.clean applied to a table, one after another
VARIABLES
    rule_data,          \* the table _create_wsj_format returned
    nulls_out,          \* what _clean_nulls returned, none if it has not or raised
    enrich_out,         \* what _enrich_columns returned, likewise
    final_out,          \* clean_data after the projection, the replace and the casts
    qpc                 \* "nulls", "enrich", "project", "done", "raised"

qvars == <<rule_data, nulls_out, enrich_out, final_out, qpc>>

\* SourceFormatChecker.check_null_source and update_source_to_database
VARIABLES
    null_symbols,       \* self.missing_symbols of the checker: current_source = -1
    wsj_symbols,        \* self.check_symbols as check_null_source reads it
    null_todo,          \* symbols the for loop of check_null_source has not reached
    found_data,         \* self.found_data as a list of (symbol, current_source)
    current_source,     \* column current_source of idx_company_profile
    source_updates,     \* history: the current_source updates the store executed
    npc,                \* "idle" | "checking" | "update" | "returned" | "raised"
    nret                \* return value of update_source_to_database

nvars == <<null_symbols, wsj_symbols, null_todo, found_data, current_source,
           source_updates, npc, nret>>

uvars == <<tvars, pvars, qvars, nvars>>

vars == <<svars, rvars, dbvars, cvars, uvars>>

\* the variables of the other components, which a component leaves alone
NotScraper == <<rvars, dbvars, cvars, uvars>>

NotResolver == <<svars, cvars, financials, uvars>>

NotCleaner == <<svars, rvars, uvars>>

(* ---------------------------------------------------------------------- *)
(* Helpers                                                                 *)
(* ---------------------------------------------------------------------- *)
Range(s) == {s[i] : i \in 1..Len(s)}

Max0(a, b) == IF a >= b THEN a ELSE b

\* list(itertools.repeat(None, n)); a negative n repeats nothing
Nones(n) == [i \in 1..Max0(n, 0) |-> None]

Repeat(x, n) == [i \in 1..n |-> x]

SeqsUpTo(S, n) == UNION {[1..k -> S] : k \in 0..n}

(* ---------------------------------------------------------------------- *)
(* WSJScraper.get_statement_data: what one fetched page can look like      *)
(* ---------------------------------------------------------------------- *)
\* A body row that maps to a MetricField: "ok" = every cell of the kept
\* periods parses; "bad" = a cell is missing or unparsable (IndexError or
\* ValueError at line 241).  Rows that are subtotals, unmapped or have no
\* cells are skipped by lines 213-229 and leave no trace.
Rows(stmt) ==
    {r \in SeqsUpTo([col : target_metrics(stmt), cells : {"ok", "bad"}], MaxRows) :
        \A i, j \in 1..Len(r) : i # j => r[i].col # r[j].col}

\* A sub-table div of the page: "absent" = the div list is too short,
\* "notable" = the div holds no <table>, "badheader" = thead/date labels
\* cannot be read, "table" = header dates and rows.
SubTables1(stmt) ==
    {[kind |-> k, header |-> << >>, rows |-> << >>] :
        k \in {"absent", "notable", "badheader"}}
    \cup [kind : {"table"}, header : SeqsUpTo(Dates, header_max), rows : Rows(stmt)]

SubTablesN(stmt) ==
    {[kind |-> k, header |-> << >>, rows |-> << >>] : k \in {"absent", "notable"}}
    \cup [kind : {"table"}, header : {<< >>}, rows : Rows(stmt)]

(* ---------------------------------------------------------------------- *)
(* check_dbdate_is_latest and the takewhile of line 292                    *)
(* ---------------------------------------------------------------------- *)
check_dbdate_is_latest(symbol, wsj_date) ==
    IF symbol \notin DOMAIN latest_date_df
    THEN [latest |-> FALSE, date |-> NoDate]
    ELSE LET dblatest_date == latest_date_df[symbol]
         IN IF wsj_date <= dblatest_date
            THEN [latest |-> TRUE, date |-> NoDate]
            ELSE [latest |-> FALSE, date |-> dblatest_date]

\* mutant of Newer: the cutoff date itself is kept
Newer_OrEqual(x, dblatest_date) == x >= dblatest_date

\* x > dblatest_date, the predicate of the takewhile
Newer(x, dblatest_date) == x > dblatest_date

\* itertools.takewhile: the longest prefix whose elements all satisfy it
TakeWhile(s, d) ==
    LET stop == {i \in 1..Len(s) : ~Newer(s[i], d)}
        n == IF stop = {} THEN Len(s)
             ELSE (CHOOSE i \in stop : \A j \in stop : i <= j) - 1
    IN SubSeq(s, 1, n)

\* line 292
Truncate(s, d) == IF d # NoDate THEN TakeWhile(s, d) ELSE s

(* ---------------------------------------------------------------------- *)
(* get_rowsdata                                                            *)
(* ---------------------------------------------------------------------- *)
\* lines 231-235: a column first seen now is created, back-filled with None
\* for the rows already in result_dict
BackFill(rd, col) ==
    IF col \in DOMAIN rd THEN rd ELSE (col :> Nones(Len(rd["symbol"]))) @@ rd

SetKey(d, k, v) == (k :> v) @@ d

\* L = [rd, sd, raised]; one row of the loop at line 211
RowStep(L, row, data_length) ==
    LET rd1 == BackFill(L.rd, row.col)
    IN IF L.raised THEN L
       ELSE IF L.sd = NoneDict
            \* symbol_dict[col_name] = [] on None: TypeError
            THEN [rd |-> rd1, sd |-> L.sd, raised |-> TRUE]
       ELSE IF row.cells = "bad" /\ data_length > 0
            THEN [rd |-> rd1, sd |-> SetKey(L.sd, row.col, << >>), raised |-> TRUE]
       ELSE [rd |-> rd1, sd |-> SetKey(L.sd, row.col, Repeat(Num, data_length)),
             raised |-> FALSE]

RECURSIVE RowsFrom(_, _, _, _)
RowsFrom(L, rows, i, data_length) ==
    IF i > Len(rows) THEN L
    ELSE RowsFrom(RowStep(L, rows[i], data_length), rows, i + 1, data_length)

get_rowsdata(rd, sd, rows, data_length) ==
    RowsFrom([rd |-> rd, sd |-> sd, raised |-> FALSE], rows, 1, data_length)

(* ---------------------------------------------------------------------- *)
(* the merge of lines 327-349                                              *)
(* ---------------------------------------------------------------------- *)
\* lines 338-342, one column of symbol_dd
MergeCol(old, new, cur_len) ==
    IF Len(old) + Len(new) # cur_len
    THEN old \o Nones(cur_len - Len(old)) \o new
    ELSE old \o new

\* lines 344-347, a column the symbol does not have
PadCol(old, cur_len) == old \o Nones(cur_len - Len(old))

Merge(rd, sd) ==
    LET cur_len == Len(rd["symbol"]) + Len(sd["symbol"])
    IN [c \in DOMAIN rd |->
          IF c \in {"symbol", "date"} THEN rd[c] \o sd[c]
          ELSE IF c \in DOMAIN sd THEN MergeCol(rd[c], sd[c], cur_len)
          ELSE PadCol(rd[c], cur_len)]

\* pd.DataFrame(dict) accepts only columns of one length
Rectangular(rd) == \A c \in DOMAIN rd : Len(rd[c]) = Len(rd["symbol"])

(* ---------------------------------------------------------------------- *)
(* WSJScraper.get_statement_data: one pass over self.symbols               *)
(* ---------------------------------------------------------------------- *)
\* sym/out: the symbol handled last and how its iteration ended;
\* read/header/own: within an iteration, the header the first sub-table gave
\* and whether symbol_dd was built from it (forgotten when the iteration ends)
NoHist == [sym |-> "", out |-> "", read |-> FALSE, header |-> << >>,
           own |-> FALSE]

Ended(symbol, out) == [NoHist EXCEPT !.sym = symbol, !.out = out]

\* __init__ (lines 129-150) and lines 155-156
ScraperPass(syms, max_len) ==
    /\ symbols = syms
    /\ header_max = max_len
    /\ statement \in Statements
    /\ latest_date_df \in UNION {[S -> Dates] : S \in SUBSET Range(syms)}
    /\ idx = 1
    /\ result_dict = [symbol |-> << >>, date |-> << >>]
    /\ symbol_dd = NoneDict
    /\ dates = [bound |-> FALSE, v |-> << >>]
    /\ missing_symbols = {}
    /\ completed_symbols = {}
    /\ df = EmptyDF
    /\ raw_data = EmptyDF
    /\ warned = {}
    /\ hist = NoHist
    /\ spc = "fetch"
    /\ exc = ""
    /\ attempts = 0
    /\ repeated = FALSE
    /\ skipped = {}

\* a pass over NumSymbols symbols
ScraperStart == ScraperPass(SubSeq(AllSymbols, 1, NumSymbols), MaxLen)

\* a pass over one symbol, with longer header rows
CutoffStart == ScraperPass(<<AllSymbols[1]>>, CutoffLen)

InLoop == spc \notin {"returned", "raised"} /\ idx <= Len(symbols)

\* `continue`: on to the next symbol
Continue(out) ==
    /\ idx' = idx + 1
    /\ spc' = "fetch"
    /\ hist' = Ended(symbols[idx], out)

\* handle_error(..., exit=False): a warning is logged
Warn(symbol) == warned' = warned \cup {symbol}

\* keyword default of __init__, line 129 (scrape_wsj passes none)
max_retry == 3

\* what table_div.find_all('div', recursive=False) can return: a list, with
\* or without elements; BeautifulSoup never returns None
find_all == {"[]", "[div, ...]"}

\* lines 260-271: the passes the while loop makes when every pass finds the
\* container and reads divs from it; line 265 tests `is not None`, so a list
\* of any length leaves the loop at line 268
WhileTries(divs) == IF divs # "None" THEN 1 ELSE max_retry

\* self.missing_symbols.add(symbol)
\* (variant: the symbol is not recorded)
MarkMissing_Not(symbol) == UNCHANGED missing_symbols

MarkMissing(symbol) == missing_symbols' = missing_symbols \cup {symbol}

\* lines 262: requests.get raises (connection error, timeout); the try at
\* line 259 catches AttributeError only, so it leaves get_statement_data
FetchTransportError ==
    /\ spc = "fetch" /\ InLoop
    /\ spc' = "raised"
    /\ exc' = "ConnectionError"
    /\ hist' = Ended(symbols[idx], "raised")
    /\ attempts' = 1
    /\ UNCHANGED <<repeated, skipped>>
    /\ UNCHANGED <<symbols, statement, latest_date_df, header_max, idx, result_dict,
                   symbol_dd, dates, missing_symbols, completed_symbols, df,
                   raw_data, warned>>
    /\ UNCHANGED NotScraper

\* lines 264, 272-275: the container div is absent, soup.find returns None
FetchPageNotFound ==
    /\ spc = "fetch" /\ InLoop
    /\ Warn(symbols[idx])
    /\ MarkMissing(symbols[idx])
    /\ idx' = idx + 1
    /\ spc' = "fetch"
    /\ hist' = Ended(symbols[idx], "pagenotfound")
    /\ attempts' = 1
    /\ UNCHANGED <<repeated, skipped>>
    /\ UNCHANGED <<symbols, statement, latest_date_df, header_max, result_dict, symbol_dd,
                   dates, completed_symbols, df, raw_data, exc>>
    /\ UNCHANGED NotScraper

\* lines 262-268: the container is there; tables = its child divs but the first
FetchOk ==
    /\ spc = "fetch" /\ InLoop
    /\ spc' = "table1"
    /\ hist' = [NoHist EXCEPT !.sym = symbols[idx]]
    /\ \E divs \in find_all : attempts' = WhileTries(divs)
    /\ UNCHANGED <<repeated, skipped>>
    /\ UNCHANGED <<symbols, statement, latest_date_df, header_max, idx, result_dict,
                   symbol_dd, dates, missing_symbols, completed_symbols, df,
                   raw_data, warned, exc>>
    /\ UNCHANGED NotScraper

\* a header row that shows one date in two columns
HasRepeat(header) ==
    \E i, j \in 1..Len(header) : i # j /\ header[i] = header[j]

AfterTable1 == IF statement # "income-statement" THEN "table2" ELSE "merge"
AfterTable2 == IF statement = "cash-flow" THEN "table3" ELSE "merge"

\* lines 299-306: any exception of the first sub-table
Table1Except ==
    /\ Warn(symbols[idx])
    /\ MarkMissing(symbols[idx])
    /\ Continue("missing")

\* lines 277-306, the first sub-table
Table1 ==
    /\ spc = "table1"
    /\ \E t \in SubTables1(statement) :
       /\ repeated' = (repeated \/ HasRepeat(t.header))
       /\ skipped' = IF t.header # << >>
                        /\ check_dbdate_is_latest(symbols[idx], t.header[1]).latest
                     THEN skipped \cup {symbols[idx]}
                     ELSE skipped
       /\
         CASE t.kind = "absent" ->
                \* tables is empty: tables[0] raises IndexError
                /\ Warn(symbols[idx])
                /\ MarkMissing(symbols[idx])
                /\ Continue("notables")
                /\ UNCHANGED <<result_dict, symbol_dd, dates>>
           [] t.kind = "badheader" ->
                \* thead, fiscal year or strptime error
                /\ Table1Except
                /\ UNCHANGED <<result_dict, symbol_dd, dates>>
           [] t.kind = "notable" ->
                \* `if table:` is false, nothing is read
                /\ spc' = AfterTable1
                /\ UNCHANGED <<result_dict, symbol_dd, dates, missing_symbols,
                               warned, idx, hist>>
           [] OTHER ->
                LET chk == check_dbdate_is_latest(symbols[idx], t.header[1])
                    kept == Truncate(t.header, chk.date)
                    sd0 == [symbol |-> Repeat(symbols[idx], Len(kept)),
                            date |-> kept]
                    L == get_rowsdata(result_dict, sd0, t.rows, Len(kept))
                IN IF t.header = << >>
                   THEN \* dates = [] is assigned, dates[0] raises IndexError
                        /\ dates' = [bound |-> TRUE, v |-> << >>]
                        /\ Table1Except
                        /\ UNCHANGED <<result_dict, symbol_dd>>
                   ELSE IF chk.latest
                   THEN \* line 290: already current
                        /\ dates' = [bound |-> TRUE, v |-> t.header]
                        /\ idx' = idx + 1
                        /\ spc' = "fetch"
                        /\ hist' = Ended(symbols[idx], "current")
                        /\ UNCHANGED <<result_dict, symbol_dd, missing_symbols,
                                       warned>>
                   ELSE /\ dates' = [bound |-> TRUE, v |-> kept]
                        /\ result_dict' = L.rd
                        /\ symbol_dd' = L.sd
                        /\ IF L.raised
                           THEN /\ Warn(symbols[idx])
                                /\ MarkMissing(symbols[idx])
                                /\ idx' = idx + 1
                                /\ spc' = "fetch"
                                /\ hist' = Ended(symbols[idx], "missing")
                           ELSE /\ spc' = AfterTable1
                                /\ hist' = [hist EXCEPT !.read = TRUE,
                                              !.header = t.header, !.own = TRUE]
                                /\ UNCHANGED <<missing_symbols, warned, idx>>
    /\ UNCHANGED <<symbols, statement, latest_date_df, header_max, completed_symbols, df,
                   raw_data, exc, attempts>>
    /\ UNCHANGED NotScraper

\* lines 308-316 (k = 2) and 317-325 (k = 3): a later sub-table
LaterTable(k) ==
    /\ spc = (IF k = 2 THEN "table2" ELSE "table3")
    /\ \E t \in SubTablesN(statement) :
         LET L == get_rowsdata(result_dict, symbol_dd, t.rows, Len(dates.v))
         IN IF t.kind \in {"absent", "notable"} \/ ~dates.bound
            THEN \* tables[k-1] IndexError; None.find AttributeError;
                 \* len(dates) on the unbound local: all caught, `continue`
                 /\ Warn(symbols[idx])
                 /\ Continue("cancelled")
                 /\ UNCHANGED <<result_dict, symbol_dd>>
            ELSE /\ result_dict' = L.rd
                 /\ symbol_dd' = L.sd
                 /\ IF L.raised
                    THEN /\ Warn(symbols[idx])
                         /\ Continue("cancelled")
                    ELSE /\ spc' = (IF k = 2 THEN AfterTable2 ELSE "merge")
                         /\ UNCHANGED <<warned, idx, hist>>
    /\ UNCHANGED <<symbols, statement, latest_date_df, header_max, dates, missing_symbols,
                   completed_symbols, df, raw_data, exc, attempts, repeated, skipped>>
    /\ UNCHANGED NotScraper

Table2 == LaterTable(2)
Table3 == LaterTable(3)

\* lines 327-383
MergeSymbol ==
    /\ spc = "merge"
    /\ IF symbol_dd # NoneDict
       THEN LET rd == Merge(result_dict, symbol_dd)
            IN /\ result_dict' = rd
               /\ hist' = Ended(symbols[idx],
                                   IF Rectangular(rd) THEN "merged" ELSE "raised")
               /\ IF Rectangular(rd)
                  THEN /\ df' = rd
                       /\ completed_symbols' = completed_symbols \cup {symbols[idx]}
                       /\ idx' = idx + 1
                       /\ spc' = "fetch"
                       /\ exc' = exc
                  ELSE \* line 349: pd.DataFrame raises ValueError, uncaught
                       /\ spc' = "raised"
                       /\ exc' = "ValueError"
                       /\ UNCHANGED <<df, completed_symbols, idx>>
       ELSE /\ Continue("nothing")
            /\ UNCHANGED <<result_dict, df, completed_symbols, exc>>
    /\ UNCHANGED <<symbols, statement, latest_date_df, header_max, symbol_dd, dates,
                   missing_symbols, raw_data, warned, attempts, repeated, skipped>>
    /\ UNCHANGED NotScraper

\* lines 384-385: df['date'] on the frame without columns raises KeyError
FinishPass ==
    /\ spc = "fetch" /\ idx > Len(symbols)
    /\ raw_data' = df
    /\ IF df = EmptyDF
       THEN spc' = "raised" /\ exc' = "KeyError"
       ELSE spc' = "returned" /\ exc' = exc
    /\ UNCHANGED <<symbols, statement, latest_date_df, header_max, idx, result_dict,
                   symbol_dd, dates, missing_symbols, completed_symbols, df,
                   warned, hist, attempts, repeated, skipped>>
    /\ UNCHANGED NotScraper

NextScraper ==
    \/ FetchTransportError
    \/ FetchPageNotFound
    \/ FetchOk
    \/ Table1
    \/ Table2
    \/ Table3
    \/ MergeSymbol
    \/ FinishPass

(* ====================================================================== *)
(* SourceFormatChecker (src/source_format_checker.py)                      *)
(* ====================================================================== *)
\* module-level dict wsj_formats: discriminant label -> FormatCode
wsj_formats ==
    [label \in {"Total Cash & Due from Banks",
                "Operating Income Before Interest Expense"} |->
        IF label = "Total Cash & Due from Banks" THEN 4 ELSE 3]

\* the (period, statement, metric) triples in the order the two nested for
\* loops of check_wsj_format visit them
Probes ==
    <<[period |-> "quarter", statement |-> "balance-sheet",
       metric |-> "Total Cash & Due from Banks"],
      [period |-> "quarter", statement |-> "income-statement",
       metric |-> "Operating Income Before Interest Expense"],
      [period |-> "annual", statement |-> "balance-sheet",
       metric |-> "Total Cash & Due from Banks"],
      [period |-> "annual", statement |-> "income-statement",
       metric |-> "Operating Income Before Interest Expense"]>>

LoopsLeft == Len(Probes) + 1

Periods == {"quarter", "annual"}

NoPages == [p \in Periods |-> {}]

\* line 100: some row label of the page probe p reads equals its metric
OnPage(p) == Probes[p].metric \in pages[Probes[p].period]

\* break out of the statement loop: on to the first statement of the next period
NextPeriod(p) ==
    IF Probes[p].period = "quarter" THEN 3 ELSE LoopsLeft

\* the rows a profile row of the store can hold when the resolver is built
ProfileRows ==
    {[wsj_format |-> -1, current_source |-> -1],
     [wsj_format |-> -1, current_source |-> 1],
     [wsj_format |-> 3, current_source |-> 1],
     [wsj_format |-> 4, current_source |-> 1],
     [wsj_format |-> 1, current_source |-> 2]}

\* What one probe (one _scrape_wsj_data call and the parsing of lines 98-107)
\* can come to:
\*   "pagenotfound"   the page lacks the statement container: AttributeError
\*                    inside _scrape_wsj_data, re-raised at line 86
\*   "tablenotfound"  every try found no sub-table div: _scrape_wsj_data falls
\*                    off its end and returns None, tables[0] is a TypeError
\*   "error"          any other exception out of _scrape_wsj_data
\*                    (requests.get raising, for one)
\*   "notable"        sub-table divs came back but the first holds no <table>
\*                    or a row holds no <td>: AttributeError at lines 99-100
\*   "rowerror"       sub-table divs came back, a row has no class attribute:
\*                    KeyError at line 100
\*   "nomatch"        rows parsed, none equals the metric
\*   "match"          rows parsed, one equals the metric
Outcomes == {"pagenotfound", "tablenotfound", "error", "notable", "rowerror",
             "nomatch", "match"}

\* does line 97 assign tables (did _scrape_wsj_data return)?
Assigns(o) == o \notin {"pagenotfound", "error"}

\* lines 93, 95: both loops stop at the first probe that sets found_flag
\* (variant: the flag is never looked at)
Stop_Never(flag) == FALSE

Stop(flag) == flag

\* __init__, lines 44-52
CheckSet(prof) ==
    {s \in DOMAIN prof : prof[s].wsj_format = -1}
    \cup {s \in DOMAIN prof :
            prof[s].current_source < 2 /\ prof[s].wsj_format \in {3, 4}}

ResolverStart ==
    /\ profile \in [{AllSymbols[i] : i \in 1..NumProfiles} -> ProfileRows]
    /\ check_symbols = CheckSet(profile)
    /\ todo = check_symbols
    /\ cur = ""
    /\ probe = LoopsLeft
    /\ found_flag = FALSE
    /\ tables = "unbound"
    /\ format_data = << >>
    /\ probed = << >>
    /\ pages = NoPages
    /\ writes = {}
    /\ financials = {}
    /\ rpc = "idle"
    /\ rret = 0

\* line 90-91: the for loop takes the next symbol of the set (any order)
StartSymbol ==
    /\ rpc = "idle" /\ todo # {}
    /\ \E s \in todo :
         /\ cur' = s
         /\ todo' = todo \ {s}
    /\ found_flag' = FALSE
    /\ probe' = 1
    /\ probed' = << >>
    /\ pages' \in [Periods -> SUBSET DOMAIN wsj_formats]
    /\ rpc' = "probing"
    /\ UNCHANGED <<profile, check_symbols, tables, format_data, writes, rret>>
    /\ UNCHANGED NotResolver

\* lines 95-122: one pass of the statement loop body
Probe ==
    /\ rpc = "probing" /\ probe < LoopsLeft /\ ~Stop(found_flag)
    /\ \E o \in Outcomes :
         /\ o = "match" => OnPage(probe)
         /\ o = "nomatch" => ~OnPage(probe)
         /\ probed' = Append(probed, [probe |-> probe, outcome |-> o])
         /\ tables' = IF ~Assigns(o) THEN tables
                      ELSE IF o = "tablenotfound" THEN "None" ELSE "list"
         /\ format_data' =
              IF o = "match"
              THEN Append(format_data,
                          [symbol |-> cur,
                           wsj_format |-> wsj_formats[Probes[probe].metric]])
              ELSE format_data
         /\ found_flag' = (found_flag \/ o \in {"match", "pagenotfound", "notable"})
         /\ probe' = IF o \in {"nomatch", "match"} THEN probe + 1
                     ELSE NextPeriod(probe)
    /\ UNCHANGED <<profile, check_symbols, todo, cur, writes, pages, rpc, rret>>
    /\ UNCHANGED NotResolver

\* lines 123-127, reached when both loops are left
EndSymbol ==
    /\ rpc = "probing" /\ (probe = LoopsLeft \/ Stop(found_flag))
    /\ IF found_flag
       THEN rpc' = "idle" /\ UNCHANGED <<format_data, found_flag>>
       ELSE IF tables = "unbound"
       THEN rpc' = "raised" /\ UNCHANGED <<format_data, found_flag>>
       ELSE IF tables = "list"
       THEN /\ format_data' = Append(format_data, [symbol |-> cur, wsj_format |-> 1])
            /\ found_flag' = TRUE
            /\ rpc' = "idle"
       ELSE rpc' = "idle" /\ UNCHANGED <<format_data, found_flag>>
    /\ UNCHANGED <<profile, check_symbols, todo, cur, probe, tables, probed, pages,
                   writes, rret>>
    /\ UNCHANGED NotResolver

\* check_wsj_format returns
CheckReturns ==
    /\ rpc = "idle" /\ todo = {}
    /\ rpc' = "checked"
    /\ UNCHANGED <<profile, check_symbols, todo, cur, probe, found_flag, tables,
                   format_data, probed, pages, writes, rret>>
    /\ UNCHANGED NotResolver

\* temp_df.wsj_format.unique().tolist(): the codes in order of first appearance
Unique(fd) ==
    LET F[i \in 0..Len(fd)] ==
          IF i = 0 THEN << >>
          ELSE IF fd[i].wsj_format \in Range(F[i - 1]) THEN F[i - 1]
          ELSE Append(F[i - 1], fd[i].wsj_format)
    IN F[Len(fd)]

SymbolsOf(fd, code) == {fd[i].symbol : i \in {j \in 1..Len(fd) : fd[j].wsj_format = code}}

\* lines 163-173: the store after the first n per-code updates went through
RECURSIVE UpdateFormats(_, _, _, _)
UpdateFormats(prof, fd, codes, n) ==
    IF n = 0 THEN prof
    ELSE LET before == UpdateFormats(prof, fd, codes, n - 1)
         IN [s \in DOMAIN before |->
               IF s \in SymbolsOf(fd, codes[n])
               THEN [before[s] EXCEPT !.wsj_format = codes[n]]
               ELSE before[s]]

\* lines 176-188
UpdateSource(prof, fd) ==
    [s \in DOMAIN prof |->
       IF \E i \in 1..Len(fd) : fd[i].symbol = s /\ fd[i].wsj_format > 2
       THEN [prof[s] EXCEPT !.current_source = 2]
       ELSE prof[s]]

\* update_format_to_database, lines 159-190; nok = the per-code updates the
\* store accepts before one raises, src_ok = the current_source update goes
\* through
update_format_to_database ==
    /\ rpc = "checked"
    /\ rpc' = "updated"
    /\ IF Len(format_data) = 0
       THEN rret' = 0 /\ UNCHANGED <<profile, writes>>
       ELSE \E nok \in 0..Len(Unique(format_data)), src_ok \in BOOLEAN :
              LET codes == Unique(format_data)
                  wrote == UpdateFormats(profile, format_data, codes, nok)
                  all == nok = Len(codes)
              IN /\ profile' = IF all /\ src_ok
                               THEN UpdateSource(wrote, format_data) ELSE wrote
                 /\ writes' = writes \cup
                      {[by |-> "resolver", symbol |-> s,
                        old |-> profile[s].wsj_format,
                        new |-> wrote[s].wsj_format] :
                         s \in UNION {SymbolsOf(format_data, codes[i]) : i \in 1..nok}}
                 /\ rret' = IF all /\ (src_ok \/ \A i \in 1..Len(codes) : codes[i] <= 2)
                            THEN 1 ELSE -1
    /\ UNCHANGED <<check_symbols, todo, cur, probe, found_flag, tables,
                   format_data, probed, pages>>
    /\ UNCHANGED NotResolver

NextResolver ==
    \/ StartSymbol
    \/ Probe
    \/ EndSymbol
    \/ CheckReturns
    \/ update_format_to_database

(* ====================================================================== *)
(* WSJCleaner (src/wsj_cleaner.py): the columns and the row-wise rules      *)
(* ====================================================================== *)
\* self.columns, the columns clean() projects to
columns ==
    {"symbol", "date", "net_operating_cash_flow", "total_assets",
     "total_liabilities", "total_current_liabilities", "total_equity",
     "total_revenue", "net_income", "total_debt", "stockholders_equity", "ebit",
     "ebitda", "interest_expense", "cash_and_short_term_investments", "cash_only",
     "total_cash_and_due_from_banks", "diluted_eps", "diluted_shares_outstanding",
     "gross_income", "pretax_income", "income_taxes", "total_current_assets",
     "total_non_current_assets", "free_cash_flow",
     "interest_expense_non_operating", "operating_income"}

\* columns the cleaner reads but does not keep
ReadOnlyFields ==
    {"short_term_debt", "long_term_debt",
     "selling_general_and_administration_expense", "other_operating_expenses",
     "selling_general_and_admin_expenses_and_other",
     "cogs_including_depreciation_amortization",
     "operating_income_before_interest_expense",
     "interest_expense_net_of_interest_capitalized", "net_interest_income",
     "non_interest_income", "depreciation_and_amortization_expense"}

\* the metric columns of the raw table that reach the cleaner's rules or its
\* output (scrape_wsj adds every metric column the pass did not see as None)
MetricFields ==
    (columns \ {"symbol", "date", "ebit", "total_non_current_assets"})
    \cup ReadOnlyFields

fill_hyphen_cols ==
    {"selling_general_and_administration_expense", "other_operating_expenses",
     "non_interest_income", "net_interest_income", "gross_income",
     "depreciation_and_amortization_expense", "ebitda", "total_assets",
     "total_current_assets", "pretax_income", "total_current_liabilities",
     "total_liabilities", "total_revenue",
     "cogs_including_depreciation_amortization",
     "interest_expense_non_operating"}

isna(v) == v.t = "None"

notna(v) == v.t # "None"

\* pd.to_numeric: numbers and None pass, '' becomes NaN, any other string raises
Parses(v) == v.t # "str" \/ v.s = ""

to_numeric(v) == IF v.t = "num" THEN v ELSE None

Plus(a, b) ==
    IF isna(to_numeric(a)) \/ isna(to_numeric(b)) THEN None
    ELSE Val(to_numeric(a).n + to_numeric(b).n)

Minus(a, b) ==
    IF isna(to_numeric(a)) \/ isna(to_numeric(b)) THEN None
    ELSE Val(to_numeric(a).n - to_numeric(b).n)

\* r with column c set to v (the column is created when r lacks it)
Set(r, c, v) == [k \in DOMAIN r \cup {c} |-> IF k = c THEN v ELSE r[k]]

MapRows(Op(_), rows) == [i \in 1..Len(rows) |-> Op(rows[i])]

\* _create_wsj_format, lines 77-79, for one row
DetectFormat(r) ==
    LET bank == IF notna(r["total_cash_and_due_from_banks"]) THEN 4
                ELSE r["wsj_format"]
        oibie == IF notna(r["operating_income_before_interest_expense"]) THEN 3
                 ELSE bank
    IN IF oibie \notin {3, 4} THEN 1 ELSE oibie

SetFormat(r) == Set(r, "wsj_format", DetectFormat(r))

\* DataFrame.drop_duplicates: the first occurrence of every row, in order
drop_duplicates(s) ==
    LET F[i \in 0..Len(s)] ==
          IF i = 0 THEN << >>
          ELSE IF s[i] \in Range(F[i - 1]) THEN F[i - 1]
          ELSE Append(F[i - 1], s[i])
    IN F[Len(s)]

\* line 80
ProfileOf(rows) ==
    drop_duplicates([i \in 1..Len(rows) |->
                        [symbol |-> rows[i]["symbol"],
                         wsj_format |-> rows[i]["wsj_format"]]])

\* test_duplication, lines 53-60: the symbols of the rows duplicated('symbol') marks
Duplicated(pd) ==
    {pd[i].symbol : i \in {j \in 1..Len(pd) : \E k \in 1..(j - 1) : pd[k].symbol = pd[j].symbol}}

\* test_equality, lines 71-72: is a recorded code replaceable (NaN or 5)?
\* (variant: every recorded code is)
IsNew_Always(db) == TRUE

IsNew(db) == db = Unset \/ db = 5

\* test_equality, lines 66-74
Changed(pd, info) ==
    {pd[i].symbol : i \in {j \in 1..Len(pd) :
        pd[j].wsj_format # info[pd[j].symbol] /\ ~IsNew(info[pd[j].symbol])}}

NonEqual(pd, info) ==
    {pd[i].symbol : i \in {j \in 1..Len(pd) :
        pd[j].wsj_format # info[pd[j].symbol] /\ IsNew(info[pd[j].symbol])}}

IsHyphenOrNa(v) == v = Hyphen \/ isna(v)

\* _clean_nulls, lines 109-117: the debt columns of one row
\* (variant: an absent debt column is filled with 0 whatever the other holds)
CleanDebt_ZeroFill(r) ==
    Set(Set(r, "short_term_debt",
            IF IsHyphenOrNa(r["short_term_debt"]) THEN Val(0) ELSE r["short_term_debt"]),
        "long_term_debt",
        IF IsHyphenOrNa(r["long_term_debt"]) THEN Val(0) ELSE r["long_term_debt"])

CleanDebt(r) ==
    LET both == IsHyphenOrNa(r["short_term_debt"]) /\ IsHyphenOrNa(r["long_term_debt"])
        s1 == IF both THEN None ELSE r["short_term_debt"]
        l1 == IF both THEN None ELSE r["long_term_debt"]
        s2 == IF IsHyphenOrNa(s1) /\ notna(l1) THEN Val(0) ELSE s1
        l2 == IF IsHyphenOrNa(l1) /\ notna(s2) THEN Val(0) ELSE l1
    IN Set(Set(r, "short_term_debt", s2), "long_term_debt", l2)

\* line 126
FillHyphen(r) ==
    [k \in DOMAIN r |-> IF k \in fill_hyphen_cols /\ r[k] = Hyphen THEN None ELSE r[k]]

\* lines 129-143
CleanOpex(r) ==
    LET sga == r["selling_general_and_administration_expense"]
        all0 == r["selling_general_and_admin_expenses_and_other"]
        o0 == r["other_operating_expenses"]
        o1 == IF r["wsj_format"] = 3 /\ isna(o0) THEN Minus(all0, sga) ELSE o0
        o2 == IF isna(o1) /\ notna(r["gross_income"]) THEN Val(0) ELSE o1
        all1 == IF isna(all0) THEN Plus(sga, o2) ELSE all0
    IN Set(Set(r, "other_operating_expenses", o2),
           "selling_general_and_admin_expenses_and_other", all1)

\* lines 146-156
\* (variant: the column is left as the source gave it)
CleanOperatingIncome_Keep(r) == r

CleanOperatingIncome(r) ==
    LET i1 == IF r["wsj_format"] = 3
              THEN r["operating_income_before_interest_expense"]
              ELSE r["operating_income"]
        i2 == IF isna(i1) /\ r["wsj_format"] = 1
              THEN Minus(Minus(r["gross_income"],
                               r["selling_general_and_administration_expense"]),
                         r["other_operating_expenses"])
              ELSE i1
    IN Set(r, "operating_income", i2)

\* lines 159-163
\* (variant: the column is left as the source gave it)
CleanInterest_Keep(r) == r

CleanInterest(r) ==
    Set(r, "interest_expense_non_operating",
        IF r["wsj_format"] = 3
        THEN r["interest_expense_net_of_interest_capitalized"]
        ELSE r["interest_expense_non_operating"])

\* lines 166-170
CleanGross(r) ==
    Set(r, "gross_income",
        IF isna(r["gross_income"])
        THEN Minus(r["total_revenue"], r["cogs_including_depreciation_amortization"])
        ELSE r["gross_income"])

\* _clean_nulls for one row
CleanNullsRow(r) ==
    CleanGross(CleanInterest(CleanOperatingIncome(CleanOpex(FillHyphen(CleanDebt(r))))))

_clean_nulls(rows) == MapRows(CleanNullsRow, rows)

\* np.where evaluates both branches for every row: each pd.to_numeric of
\* lines 131-168 sees its whole column, as it stands when the line runs
NullsRaises(rows) ==
    \E i \in 1..Len(rows) :
       LET a == FillHyphen(CleanDebt(rows[i]))
           b == CleanOpex(a)
           c == CleanInterest(CleanOperatingIncome(b))
       IN \/ ~Parses(a["selling_general_and_admin_expenses_and_other"])
          \/ ~Parses(a["selling_general_and_administration_expense"])
          \/ ~Parses(b["other_operating_expenses"])
          \/ ~Parses(b["gross_income"])
          \/ ~Parses(c["total_revenue"])
          \/ ~Parses(c["cogs_including_depreciation_amortization"])

\* _enrich_columns, lines 176-199, for one row
EnrichRow(r) ==
    LET debt == IF isna(r["total_debt"])
                THEN Plus(r["short_term_debt"], r["long_term_debt"])
                ELSE r["total_debt"]
        revenue == IF isna(r["total_revenue"])
                   THEN Plus(r["net_interest_income"], r["non_interest_income"])
                   ELSE r["total_revenue"]
        ebit == IF r["wsj_format"] \in {1, 3}
                THEN Plus(r["pretax_income"], r["interest_expense_non_operating"])
                ELSE None
        ebitda == IF notna(r["ebitda"])
                  THEN Plus(ebit, r["depreciation_and_amortization_expense"])
                  ELSE None
        fixed == Minus(r["total_assets"], r["total_current_assets"])
    IN Set(Set(Set(Set(Set(r, "total_debt", debt), "total_revenue", revenue),
                   "ebit", ebit), "ebitda", ebitda),
           "total_non_current_assets", fixed)

_enrich_columns(rows) == MapRows(EnrichRow, rows)

\* the pd.to_numeric calls of lines 178-199
EnrichRaises(rows) ==
    \E i \in 1..Len(rows) :
       \E c \in {"short_term_debt", "long_term_debt", "net_interest_income",
                 "non_interest_income", "pretax_income",
                 "interest_expense_non_operating",
                 "depreciation_and_amortization_expense", "total_assets",
                 "total_current_assets"} : ~Parses(rows[i][c])

\* lines 212-213: keep self.columns, then replace('-', None)
ProjectRow(r) ==
    [c \in columns |->
        IF c \in {"symbol", "date"} THEN r[c]
        ELSE IF r[c] = Hyphen THEN None ELSE r[c]]

Project(rows) == MapRows(ProjectRow, rows)

\* lines 216-220: astype(float) raises on a string that is left in a cast column
CastRaises(rows) ==
    \E i \in 1..Len(rows) :
       \E c \in columns \ {"symbol", "date"} : rows[i][c].t = "str"

\* the nullable-integer and float casts keep a number and keep a null
Cast(rows) == rows

\* how far clean() gets on the rows _create_wsj_format returned
CleanUpTo(rows) ==
    IF NullsRaises(rows) THEN "nulls"
    ELSE IF EnrichRaises(_clean_nulls(rows)) THEN "enrich"
    ELSE IF CastRaises(Project(_enrich_columns(_clean_nulls(rows)))) THEN "cast"
    ELSE "ok"

Projected(rows) == Project(_enrich_columns(_clean_nulls(rows)))

\* clean_data as it stands when clean() returns
\* (variant: the rows of this call are appended to those of the last call)
CleanDataAfter_Append(rows, before) ==
    CASE CleanUpTo(rows) = "nulls" -> before
      [] CleanUpTo(rows) = "enrich" ->
            [none |-> FALSE, rows |-> before.rows \o _clean_nulls(rows)]
      [] OTHER -> [none |-> FALSE, rows |-> before.rows \o Cast(Projected(rows))]

CleanDataAfter(rows, before) ==
    CASE CleanUpTo(rows) = "nulls" -> before
      [] CleanUpTo(rows) = "enrich" -> [none |-> FALSE, rows |-> _clean_nulls(rows)]
      [] CleanUpTo(rows) = "cast" -> [none |-> FALSE, rows |-> Projected(rows)]
      [] OTHER -> [none |-> FALSE, rows |-> Cast(Projected(rows))]

\* save_data_to_csv, lines 271-278: the data file it writes, if any
\* (variant: the cleaned-data file is written whatever the flag says)
CsvName_Always(flag) == "wsj_clean_data"

CsvName(flag) == IF flag THEN "wsj_clean_data" ELSE "wsj_partialclean_data"

\* (variant: no file is written)
DataFile_None(flag, data) == {}

DataFile(flag, data) ==
    IF flag \/ ~data.none
    THEN {[name |-> CsvName(flag), rows |-> data.rows]}
    ELSE {}

\* lines 280-283: self.profile_data goes to data/wsj_format_data.csv
FormatFile(changed, pd, before) == IF changed THEN pd ELSE before

(* ---------------------------------------------------------------------- *)
(* WSJCleaner and main: what a run starts from                              *)
(* ---------------------------------------------------------------------- *)
Blank == [f \in MetricFields |-> None]

Over(base, upd) == [f \in DOMAIN base |-> IF f \in DOMAIN upd THEN upd[f] ELSE base[f]]

\* a company with the generic layout
Generic ==
    Over(Blank, [total_revenue |-> Val(10),
                 cogs_including_depreciation_amortization |-> Val(4),
                 selling_general_and_administration_expense |-> Val(2),
                 pretax_income |-> Val(3),
                 interest_expense_non_operating |-> Val(1),
                 depreciation_and_amortization_expense |-> Val(1),
                 ebitda |-> Val(5),
                 total_assets |-> Val(9), total_current_assets |-> Val(5),
                 short_term_debt |-> Val(2), long_term_debt |-> Hyphen,
                 total_liabilities |-> Hyphen,
                 net_income |-> Val(2)])

\* a bank: its balance sheet has the row 'Total Cash & Due from Banks'
Bank ==
    Over(Blank, [total_cash_and_due_from_banks |-> Val(6),
                 net_interest_income |-> Val(5), non_interest_income |-> Val(2),
                 pretax_income |-> Val(3), total_assets |-> Val(9),
                 total_debt |-> Hyphen, net_income |-> Val(2)])

\* a company whose income statement has 'Operating Income Before Interest Expense'
Format3 ==
    Over(Blank, [operating_income_before_interest_expense |-> Val(4),
                 selling_general_and_admin_expenses_and_other |-> Val(3),
                 selling_general_and_administration_expense |-> Val(2),
                 interest_expense_net_of_interest_capitalized |-> Val(1),
                 total_revenue |-> Val(10), pretax_income |-> Val(3),
                 total_assets |-> Val(9), total_current_assets |-> Val(5),
                 net_income |-> Val(2)])

\* rows carrying a cell that one of the three parts of clean() cannot take
HyphenOpex ==
    Over(Generic, [selling_general_and_admin_expenses_and_other |-> Hyphen])

HyphenInterest ==
    Over(Format3, [interest_expense_net_of_interest_capitalized |-> Hyphen])

EmptyCell == Over(Generic, [net_income |-> Str("")])

Shapes == {Generic, Bank, Format3, HyphenOpex, HyphenInterest, EmptyCell}

SyncShapes == {Generic, HyphenOpex}

\* row i of a raw table: the first own rows belong to the first symbol, the
\* rest to the second; the date of a row is its position
RawRow(shape, i, own) ==
    shape @@ [symbol |-> IF i <= own THEN AllSymbols[1] ELSE AllSymbols[2],
              date |-> i]

RawTables(n, shapes) ==
    {[i \in 1..n |-> RawRow(t[i], i, own)] :
        t \in [1..n -> shapes], own \in {n - 1, n}}

\* the wsj_format the store holds for a symbol the cleaner meets
RecordedCodes == {Unset, 1, 3, 5}

CleanerStart(raws, rejects) ==
    /\ result_df \in raws
    /\ rejected \in rejects
    /\ profile \in [{AllSymbols[1], AllSymbols[2]} ->
                      [wsj_format : RecordedCodes, current_source : {2}]]
    /\ financials = {}
    /\ writes = {}
    /\ mpc = "start"
    /\ cleaner_raw_data = << >>
    /\ ticker_info = << >>
    /\ profile_data = << >>
    /\ clean_data = [none |-> TRUE, rows |-> << >>]
    /\ clean_flag = FALSE
    /\ clashed_symbols = {}
    /\ new_format_symbols = {}
    /\ changed_flag = FALSE
    /\ files = {}
    /\ format_file = << >>
    /\ handed = << >>
    /\ sent = << >>
    /\ cleaned = ""
    /\ db_success_flag = ""
    /\ profile_ret = ""
    /\ cleans = 0

(* ---------------------------------------------------------------------- *)
(* WSJCleaner and main: the operations                                      *)
(* ---------------------------------------------------------------------- *)
\* scrape_financial_data.main, lines 47-66 (wsj_updater.main, lines 555-575,
\* likewise): an empty table ends the run with SystemExit(0); otherwise line
\* 53 calls WSJCleaner with the keyword table_name, which __init__ does not
\* take: TypeError, and the run is over before clean() or any save
main ==
    /\ mpc = "start"
    /\ mpc' = IF result_df = << >> THEN "exited" ELSE "crashed"
    /\ UNCHANGED <<cleans, result_df, rejected, cleaner_raw_data, ticker_info, profile_data,
                   clean_data, clean_flag, clashed_symbols, new_format_symbols,
                   changed_flag, files, format_file, handed, sent, cleaned,
                   db_success_flag, profile_ret>>
    /\ UNCHANGED <<dbvars, NotCleaner>>

\* WSJCleaner.__init__ called with the parameters it has, lines 7-50
WSJCleaner ==
    /\ mpc = "start"
    /\ mpc' = "built"
    /\ ticker_info' = [s \in {result_df[i]["symbol"] : i \in 1..Len(result_df)} |->
                          profile[s].wsj_format]
    /\ cleaner_raw_data' =
          [i \in 1..Len(result_df) |->
              Set(result_df[i], "wsj_format", profile[result_df[i]["symbol"]].wsj_format)]
    /\ UNCHANGED <<cleans, result_df, rejected, profile_data, clean_data, clean_flag,
                   clashed_symbols, new_format_symbols, changed_flag, files,
                   format_file, handed, sent, cleaned, db_success_flag,
                   profile_ret>>
    /\ UNCHANGED <<dbvars, NotCleaner>>

\* clean, lines 203-225, with _create_wsj_format, lines 76-99
clean ==
    /\ mpc = "built"
    /\ cleans < MaxCleans
    /\ LET rows == MapRows(SetFormat, cleaner_raw_data)
           pd == ProfileOf(rows)
           drift == Duplicated(pd) \cup Changed(pd, ticker_info)
           flag == changed_flag \/ drift # {}
           upto == CleanUpTo(rows)
       IN /\ cleaner_raw_data' = rows
          /\ profile_data' = pd
          /\ clashed_symbols' = clashed_symbols \cup drift
          /\ changed_flag' = flag
          /\ new_format_symbols' = new_format_symbols \cup NonEqual(pd, ticker_info)
          /\ clean_data' = CleanDataAfter(rows, clean_data)
          /\ clean_flag' = (clean_flag \/ upto = "ok")
          /\ cleaned' = upto
          /\ IF upto \in {"cast", "ok"}
             THEN \* line 214: save_data_to_csv() before the casts
                  /\ files' = files \cup
                        DataFile(clean_flag, [none |-> FALSE, rows |-> Projected(rows)])
                  /\ format_file' = FormatFile(flag, pd, format_file)
             ELSE UNCHANGED <<files, format_file>>
    /\ cleans' = cleans + 1
    /\ UNCHANGED <<result_df, rejected, mpc, ticker_info, handed, sent,
                   db_success_flag, profile_ret>>
    /\ UNCHANGED <<dbvars, NotCleaner>>

\* save_data_to_csv, lines 270-283
save_data_to_csv ==
    /\ mpc = "built"
    /\ files' = files \cup DataFile(clean_flag, clean_data)
    /\ format_file' = FormatFile(changed_flag, profile_data, format_file)
    /\ UNCHANGED <<cleans, result_df, rejected, mpc, cleaner_raw_data, ticker_info,
                   profile_data, clean_data, clean_flag, clashed_symbols,
                   new_format_symbols, changed_flag, handed, sent, cleaned,
                   db_success_flag, profile_ret>>
    /\ UNCHANGED <<dbvars, NotCleaner>>

\* the store takes an upsert of rows unless it refuses one of them
Accepts(rows) == \A i \in 1..Len(rows) : rows[i]["date"] \notin rejected

\* upsert with on_conflict="symbol, date"
\* the dates of the rows of the k-th batch of a table
Batch(k) == ((k - 1) * BatchSize + 1)..(k * BatchSize)

Upsert(table, rows) ==
    {x \in table : \A i \in 1..Len(rows) :
        x["symbol"] # rows[i]["symbol"] \/ x["date"] # rows[i]["date"]}
    \cup Range(rows)

\* save_data_to_database, lines 227-254: one upsert of every record
save_data_to_database ==
    /\ mpc = "built"
    /\ sent' = IF clean_flag THEN clean_data.rows ELSE << >>
    /\ IF clean_flag /\ Accepts(clean_data.rows)
       THEN /\ financials' = Upsert(financials, clean_data.rows)
            /\ db_success_flag' = "True"
            /\ UNCHANGED <<files, format_file>>
       ELSE /\ files' = files \cup DataFile(clean_flag, clean_data)
            /\ format_file' = FormatFile(changed_flag, profile_data, format_file)
            /\ db_success_flag' = "False"
            /\ UNCHANGED financials
    /\ UNCHANGED <<cleans, result_df, rejected, mpc, cleaner_raw_data, ticker_info,
                   profile_data, clean_data, clean_flag, clashed_symbols,
                   new_format_symbols, changed_flag, handed, cleaned, profile_ret>>
    /\ UNCHANGED <<profile, writes, NotCleaner>>

\* lines 258-260
NewRecords(pd, new) == SelectSeq(pd, LAMBDA x : x.symbol \in new)

\* an upsert with on_conflict="symbol" cannot take two records of one symbol
OneRowPerSymbol(records) ==
    \A i, j \in 1..Len(records) : records[i].symbol = records[j].symbol => i = j

\* save_profile_to_database, lines 256-268
save_profile_to_database ==
    /\ mpc = "built"
    /\ IF new_format_symbols = {}
       THEN /\ profile_ret' = "0"
            /\ UNCHANGED <<profile, writes, files, format_file, handed>>
       ELSE LET records == NewRecords(profile_data, new_format_symbols)
            IN /\ handed' = records
               /\ \E ok \in {b \in BOOLEAN : b => OneRowPerSymbol(records)} :
                    IF ok
                    THEN /\ profile' =
                              [s \in DOMAIN profile |->
                                 IF \E i \in 1..Len(records) : records[i].symbol = s
                                 THEN [profile[s] EXCEPT !.wsj_format =
                                         records[CHOOSE i \in 1..Len(records) :
                                                    records[i].symbol = s].wsj_format]
                                 ELSE profile[s]]
                         /\ writes' = writes \cup
                              {[by |-> "cleaner", symbol |-> records[i].symbol,
                                old |-> profile[records[i].symbol].wsj_format,
                                new |-> records[i].wsj_format] : i \in 1..Len(records)}
                         /\ profile_ret' = "1"
                         /\ UNCHANGED <<files, format_file>>
                    ELSE /\ files' = files \cup DataFile(clean_flag, clean_data)
                         /\ format_file' = FormatFile(changed_flag, profile_data, format_file)
                         /\ profile_ret' = "-1"
                         /\ UNCHANGED <<profile, writes>>
    /\ UNCHANGED <<cleans, result_df, rejected, mpc, cleaner_raw_data, ticker_info,
                   profile_data, clean_data, clean_flag, clashed_symbols,
                   new_format_symbols, changed_flag, sent, cleaned,
                   db_success_flag>>
    /\ UNCHANGED <<financials, NotCleaner>>

NextCleaner ==
    \/ main
    \/ WSJCleaner
    \/ clean
    \/ save_data_to_csv
    \/ save_data_to_database
    \/ save_profile_to_database

CleanerIdle ==
    /\ result_df = << >> /\ rejected = {} /\ mpc = "off"
    /\ cleaner_raw_data = << >> /\ ticker_info = << >> /\ profile_data = << >>
    /\ clean_data = [none |-> TRUE, rows |-> << >>] /\ clean_flag = FALSE
    /\ clashed_symbols = {} /\ new_format_symbols = {} /\ changed_flag = FALSE
    /\ files = {} /\ format_file = << >> /\ handed = << >> /\ sent = << >>
    /\ cleaned = ""
    /\ db_success_flag = "" /\ profile_ret = "" /\ cleans = 0

StoreIdle == profile = << >> /\ financials = {} /\ writes = {}

ScraperIdle ==
    /\ symbols = << >> /\ statement = "" /\ latest_date_df = << >>
    /\ header_max = 0 /\ idx = 1
    /\ result_dict = [symbol |-> << >>, date |-> << >>]
    /\ symbol_dd = NoneDict /\ dates = [bound |-> FALSE, v |-> << >>]
    /\ missing_symbols = {} /\ completed_symbols = {}
    /\ df = EmptyDF /\ raw_data = EmptyDF /\ warned = {}
    /\ hist = NoHist /\ spc = "idle" /\ exc = "" /\ attempts = 0
    /\ repeated = FALSE
    /\ skipped = {}

ResolverIdle ==
    /\ check_symbols = {} /\ todo = {} /\ cur = ""
    /\ probe = LoopsLeft /\ found_flag = FALSE /\ tables = "unbound"
    /\ format_data = << >> /\ probed = << >>
    /\ pages = NoPages
    /\ rpc = "off" /\ rret = 0

(* ====================================================================== *)
(* Specifications                                                          *)
(* ====================================================================== *)
(* ---------------------------------------------------------------------- *)
(* The rate limit of wsj_updater.py: @sleep_and_retry @limits(calls=CALLS, *)
(* period=TIME_PERIOD) decorate get_statement_data, the function that runs *)
(* one pass over the symbol list and calls requests.get once per symbol.   *)
(* ---------------------------------------------------------------------- *)
CALLS == 12

TIME_PERIOD == 5

\* the requests issued in the TIME_PERIOD seconds that start at second t
InWindow(t) ==
    LET upto == IF t + TIME_PERIOD - 1 < MaxClock THEN t + TIME_PERIOD - 1 ELSE MaxClock
        Sum[u \in (t - 1)..upto] == IF u < t THEN 0 ELSE Sum[u - 1] + request_log[u]
    IN  Sum[upto]

LimiterStart ==
    /\ now = 0
    /\ num_calls = 0
    /\ last_reset = 0
    /\ request_log = [t \in 0..MaxClock |-> 0]
    /\ rate_pos = 0
    /\ rate_pass = 0

LimiterIdle == LimiterStart

NotLimiter == <<svars, rvars, dbvars, cvars, pvars, qvars, nvars>>

\* time passes
Tick ==
    /\ now < MaxClock
    /\ now' = now + 1
    /\ UNCHANGED <<num_calls, last_reset, request_log, rate_pos, rate_pass>>
    /\ UNCHANGED NotLimiter

\* lines 152-154: scrape_wsj calls the decorated get_statement_data.  The
\* limiter opens a new period when the last one is over, counts the call, and
\* when the count is over CALLS sleeps to the end of the period and calls again
LimitedCall ==
    /\ rate_pos = 0
    /\ rate_pass < NumPasses
    /\ LET over  == now - last_reset >= TIME_PERIOD
           start == IF over THEN now ELSE last_reset
           n     == (IF over THEN 0 ELSE num_calls) + 1
       IN  /\ last_reset' = start
           /\ num_calls' = n
           /\ IF n > CALLS
                 THEN /\ start + TIME_PERIOD <= MaxClock
                      /\ now' = start + TIME_PERIOD
                      /\ rate_pos' = 0
                 ELSE /\ now' = now
                      /\ rate_pos' = IF RateSymbols = 0 THEN 0 ELSE 1
    /\ UNCHANGED <<request_log, rate_pass>>
    /\ UNCHANGED NotLimiter

\* line 262 inside the for loop of lines 246-271: requests.get for the next
\* symbol of the pass; nothing but the network's answer holds it back
Request ==
    /\ rate_pos \in 1..RateSymbols
    /\ request_log' = [request_log EXCEPT ![now] = @ + 1]
    /\ rate_pos' = IF rate_pos = RateSymbols THEN 0 ELSE rate_pos + 1
    /\ rate_pass' = IF rate_pos = RateSymbols THEN rate_pass + 1 ELSE rate_pass
    /\ UNCHANGED <<now, num_calls, last_reset>>
    /\ UNCHANGED NotLimiter

NextLimiter ==
    \/ Tick
    \/ LimitedCall
    \/ Request

(* ---------------------------------------------------------------------- *)
(* convert_abbr (wsj_updater.py lines 169-200) on texts, and the list      *)
(* comprehension of get_rowsdata (line 241) that applies it to a row.      *)
(* A text is a sequence of one-character strings.  A float is kept exactly *)
(* as m * 10^e with m not a multiple of ten (0 is m = 0, e = 0).           *)
(* ---------------------------------------------------------------------- *)
DigitChars == <<"0", "1", "2", "3", "4", "5", "6", "7", "8", "9">>

IsDigit(c) == \E d \in 1..10 : DigitChars[d] = c

DigitVal(c) == (CHOOSE d \in 1..10 : DigitChars[d] = c) - 1

RECURSIVE Norm(_, _)
Norm(m, e) ==
    IF m = 0 THEN [m |-> 0, e |-> 0]
    ELSE IF m % 10 = 0 THEN Norm(m \div 10, e + 1)
    ELSE [m |-> m, e |-> e]

Float(m, e) == [t |-> "float", m |-> Norm(m, e).m, e |-> Norm(m, e).e]

\* str.replace(ch, '')
Remove(text, ch) == SelectSeq(text, LAMBDA c : c # ch)

Contains(text, ch) == \E k \in 1..Len(text) : text[k] = ch

startswith(text, ch) == Len(text) > 0 /\ text[1] = ch

endswith(text, ch) == Len(text) > 0 /\ text[Len(text)] = ch

\* str.strip('()'): every leading and every trailing parenthesis goes
RECURSIVE strip(_)
strip(text) ==
    IF Len(text) = 0 THEN text
    ELSE IF text[1] \in {"(", ")"} THEN strip(Tail(text))
    ELSE IF text[Len(text)] \in {"(", ")"} THEN strip(SubSeq(text, 1, Len(text) - 1))
    ELSE text

\* the digits of a text, read as one integer
RECURSIVE DigitsValue(_)
DigitsValue(text) ==
    IF Len(text) = 0 THEN 0
    ELSE 10 * DigitsValue(SubSeq(text, 1, Len(text) - 1)) + DigitVal(text[Len(text)])

\* the numeric literals float() and Decimal() read, over the characters the
\* cells are made of: an optional sign, digits with at most one point, and
\* at least one digit
Unsigned(text) == IF startswith(text, "-") \/ startswith(text, "+") THEN Tail(text) ELSE text

IsLiteral(text) ==
    LET u == Unsigned(text)
        points == Len(SelectSeq(u, LAMBDA c : c = "."))
    IN  /\ \A k \in 1..Len(u) : IsDigit(u[k]) \/ u[k] = "."
        /\ points <= 1
        /\ Len(u) - points >= 1

LiteralValue(text) ==
    LET u == Unsigned(text)
        point == IF Contains(u, ".") THEN CHOOSE k \in 1..Len(u) : u[k] = "." ELSE Len(u) + 1
        m == DigitsValue(Remove(u, "."))
        e == IF point > Len(u) THEN 0 ELSE point - Len(u)
    IN  [m |-> IF startswith(text, "-") THEN 0 - m ELSE m, e |-> e]

\* line 193: Decimal(temp_row) * 1000000
\* (variant: scaled by a thousand)
Scaled_Thousand(d) == [m |-> d.m, e |-> d.e + 3]

Scaled(d) == [m |-> d.m, e |-> d.e + 6]

\* what a call of convert_abbr does: the value it returns, or that it raised
\* (ValueError of float()), and whether it called handle_error on the way
Returned(v) == [raised |-> FALSE, value |-> v, warned |-> FALSE]

Raised(w) == [raised |-> TRUE, value |-> None, warned |-> w]

FloatOf(text) ==
    IF IsLiteral(text)
      THEN Returned(Float(LiteralValue(text).m, LiteralValue(text).e))
      ELSE Raised(FALSE)

convert_abbr(row, eps) ==
    IF row = <<"-">> \/ row = << >>
      THEN \* lines 180-181: the text goes back as it came
           Returned(Str(IF row = << >> THEN "" ELSE "-"))
      ELSE
        LET temp_row == Remove(row, ",")
        IN  IF eps
              THEN \* lines 183-185
                   FloatOf(IF startswith(temp_row, "(")
                             THEN <<"-">> \o strip(temp_row) ELSE temp_row)
            ELSE IF Contains(temp_row, "%")
              THEN \* lines 187-190
                   LET f == FloatOf(Remove(temp_row, "%"))
                   IN  IF f.raised THEN f
                       ELSE Returned(Float(f.value.m, f.value.e - 2))
            ELSE
              LET t2 == IF startswith(temp_row, "(") /\ endswith(temp_row, ")")
                          THEN <<"-">> \o strip(temp_row) ELSE temp_row
              IN  IF IsLiteral(t2)
                    THEN \* lines 193, 198
                         Returned(Float(Scaled(LiteralValue(t2)).m,
                                        Scaled(LiteralValue(t2)).e))
                    ELSE \* lines 194-196: handle_error, then float(temp_row),
                         \* which reads the same literals Decimal() does
                         [FloatOf(t2) EXCEPT !.warned = TRUE]

\* the cells of a row (line 220, value.text.strip()): printed numbers, with or
\* without parentheses, a thousands group and a decimal, and other texts
CellDigits == {"0", "5"}

Leads == UNION {[1..k -> CellDigits] : k \in 1..MaxLead}

Groups == {<< >>, <<"0", "0", "0">>, <<"2", "5", "0">>}

Fracs == {<< >>, <<"5">>}

NumberParts == [paren : BOOLEAN, lead : Leads, group : Groups, frac : Fracs]

Render(parts) ==
    LET body == parts.lead
                \o (IF parts.group = << >> THEN << >> ELSE <<",">> \o parts.group)
                \o (IF parts.frac = << >> THEN << >> ELSE <<".">> \o parts.frac)
    IN  IF parts.paren THEN <<"(">> \o body \o <<")">> ELSE body

OtherTexts ==
    { <<"-">>, << >>, <<"N">>, <<"5", "%">>, <<"(", "5">>, <<"(", "5", "%", ")">> }

Cells == {Render(parts) : parts \in NumberParts} \cup OtherTexts

ParserStart ==
    /\ col_values \in [1..RowCells -> Cells]
    /\ eps_true \in BOOLEAN
    /\ converted = << >>
    /\ conv_warned = {}
    /\ row_missing = FALSE
    /\ ppc = "convert"

ParserIdle ==
    /\ col_values = << >>
    /\ eps_true = FALSE
    /\ converted = << >>
    /\ conv_warned = {}
    /\ row_missing = FALSE
    /\ ppc = "idle"

NotParser == <<svars, rvars, dbvars, cvars, tvars, qvars, nvars>>

\* line 241: one element of the list comprehension
ConvertCell ==
    /\ ppc = "convert"
    /\ Len(converted) < Len(col_values)
    /\ LET k == Len(converted) + 1
           r == convert_abbr(col_values[k], eps_true)
       IN  /\ conv_warned' = IF r.warned THEN conv_warned \cup {k} ELSE conv_warned
           /\ IF r.raised
                THEN /\ ppc' = "raised"
                     /\ UNCHANGED converted
                ELSE /\ converted' = Append(converted, r.value)
                     /\ UNCHANGED ppc
    /\ UNCHANGED <<col_values, eps_true, row_missing>>
    /\ UNCHANGED NotParser

\* line 241: symbol_dict[col_name] += [...] once every cell is converted
StoreRow ==
    /\ ppc = "convert"
    /\ Len(converted) = Len(col_values)
    /\ ppc' = "stored"
    /\ UNCHANGED <<col_values, eps_true, converted, conv_warned, row_missing>>
    /\ UNCHANGED NotParser

\* lines 299-306: the exception left get_rowsdata (lines 238-241 are outside
\* its try) and is caught around the first sub-table
RowExcept ==
    /\ ppc = "raised"
    /\ row_missing' = TRUE
    /\ ppc' = "missing"
    /\ UNCHANGED <<col_values, eps_true, converted, conv_warned>>
    /\ UNCHANGED NotParser

NextParser ==
    \/ ConvertCell
    \/ StoreRow
    \/ RowExcept

(* ---------------------------------------------------------------------- *)
(* _clean_nulls, _enrich_columns and the tail of clean() as functions of a *)
(* table: the rows carry every combination of the debt columns and of the  *)
(* interest columns the rules read.                                        *)
(* ---------------------------------------------------------------------- *)
DebtCells == {None, Hyphen, Val(2)}

DebtShapes ==
    {Over(Generic, [short_term_debt |-> s, long_term_debt |-> l, total_debt |-> d]) :
        s \in DebtCells, l \in DebtCells, d \in {None, Hyphen, Val(7)}}

InterestShapes ==
    {Over(Format3, [interest_expense_net_of_interest_capitalized |-> n,
                    interest_expense_non_operating |-> o,
                    pretax_income |-> p]) :
        n \in {None, Hyphen, Val(1)}, o \in {None, Val(7)}, p \in {Hyphen, Val(3)}}

IncomeShapes ==
    {Over(Generic, [gross_income |-> g,
                    selling_general_and_administration_expense |-> a,
                    other_operating_expenses |-> o,
                    operating_income |-> i]) :
        g \in {None, Hyphen, Val(9)}, a \in {None, Val(2)}, o \in {None, Val(1)},
        i \in {None, Val(8)}}

RuleShapes == DebtShapes \cup InterestShapes \cup IncomeShapes \cup {HyphenOpex}

\* the tables _create_wsj_format returns: the merged wsj_format of the store
\* (line 37), then the detection of lines 77-79
RuleTables ==
    {MapRows(SetFormat,
             [i \in 1..RuleRows |-> Set(RawRow(t[i], i, RuleRows), "wsj_format", c[i])]) :
        t \in [1..RuleRows -> RuleShapes], c \in [1..RuleRows -> {1, 3}]}

NoTable == [none |-> TRUE, rows |-> << >>]

RulesStart ==
    /\ rule_data \in RuleTables
    /\ nulls_out = NoTable
    /\ enrich_out = NoTable
    /\ final_out = NoTable
    /\ qpc = "nulls"

RulesIdle ==
    /\ rule_data = << >>
    /\ nulls_out = NoTable
    /\ enrich_out = NoTable
    /\ final_out = NoTable
    /\ qpc = "idle"

NotRules == <<svars, rvars, dbvars, cvars, tvars, pvars, nvars>>

\* clean, lines 205-209: self.clean_data = self._clean_nulls(self.raw_data)
CleanNullsStep ==
    /\ qpc = "nulls"
    /\ IF NullsRaises(rule_data)
         THEN /\ qpc' = "raised"
              /\ UNCHANGED nulls_out
         ELSE /\ qpc' = "enrich"
              /\ nulls_out' = [none |-> FALSE, rows |-> _clean_nulls(rule_data)]
    /\ UNCHANGED <<rule_data, enrich_out, final_out>>
    /\ UNCHANGED NotRules

\* clean, line 211: self.clean_data = self._enrich_columns(self.clean_data)
EnrichStep ==
    /\ qpc = "enrich"
    /\ IF EnrichRaises(nulls_out.rows)
         THEN /\ qpc' = "raised"
              /\ UNCHANGED enrich_out
         ELSE /\ qpc' = "project"
              /\ enrich_out' = [none |-> FALSE, rows |-> _enrich_columns(nulls_out.rows)]
    /\ UNCHANGED <<rule_data, nulls_out, final_out>>
    /\ UNCHANGED NotRules

\* clean, lines 212-220: the projection on self.columns, replace('-', None)
\* and the casts
ProjectStep ==
    /\ qpc = "project"
    /\ IF CastRaises(Project(enrich_out.rows))
         THEN /\ qpc' = "raised"
              /\ UNCHANGED final_out
         ELSE /\ qpc' = "done"
              /\ final_out' = [none |-> FALSE, rows |-> Cast(Project(enrich_out.rows))]
    /\ UNCHANGED <<rule_data, nulls_out, enrich_out>>
    /\ UNCHANGED NotRules

NextRules ==
    \/ CleanNullsStep
    \/ EnrichStep
    \/ ProjectStep

(* ====================================================================== *)
(* SourceFormatChecker: check_null_source and update_source_to_database    *)
(* ====================================================================== *)
\* __init__, lines 53-56: the symbols whose current_source is -1; the loop of
\* line 143 walks over a copy of that set
SourcesStart ==
    /\ null_symbols \in SUBSET {AllSymbols[i] : i \in 1..NumSymbols}
    /\ wsj_symbols \in SUBSET {AllSymbols[i] : i \in 1..NumSymbols}
    /\ null_todo = null_symbols
    /\ found_data = << >>
    /\ current_source = [s \in {AllSymbols[i] : i \in 1..NumSymbols} |->
                            IF s \in null_symbols THEN -1 ELSE 1]
    /\ source_updates = << >>
    /\ npc = "checking"
    /\ nret = 0

SourcesIdle ==
    /\ null_symbols = {} /\ wsj_symbols = {} /\ null_todo = {}
    /\ found_data = << >> /\ current_source = << >> /\ source_updates = << >>
    /\ npc = "idle" /\ nret = 0

NotSources == <<svars, rvars, dbvars, cvars, tvars, pvars, qvars>>

\* what a look-up of a symbol in the secondary source or on its
\* income-statement page can end in
Lookups == {"found", "empty", "raised"}

\* lines 143-150: one pass of the loop body
CheckNullSymbol ==
    /\ npc = "checking" /\ null_todo # {}
    /\ \E s \in null_todo, yf \in Lookups \ {"raised"}, wsj \in Lookups :
         /\ null_todo' = null_todo \ {s}
         /\ IF yf = "found"
            THEN /\ found_data' = Append(found_data, [symbol |-> s, current_source |-> 1])
                 /\ UNCHANGED npc
            ELSE IF s \in wsj_symbols
            THEN UNCHANGED <<found_data, npc>>
            ELSE CASE wsj = "found" ->
                        /\ found_data' =
                              Append(found_data, [symbol |-> s, current_source |-> 2])
                        /\ UNCHANGED npc
                   [] wsj = "empty" -> UNCHANGED <<found_data, npc>>
                   [] OTHER ->
                        \* _scrape_wsj_data raises, nothing catches it
                        /\ npc' = "raised"
                        /\ UNCHANGED found_data
    /\ UNCHANGED <<null_symbols, wsj_symbols, current_source, source_updates, nret>>
    /\ UNCHANGED NotSources

\* check_null_source returns
CheckNullReturns ==
    /\ npc = "checking" /\ null_todo = {}
    /\ npc' = "update"
    /\ UNCHANGED <<null_symbols, wsj_symbols, null_todo, found_data, current_source,
                   source_updates, nret>>
    /\ UNCHANGED NotSources

\* line 197: temp_df.current_source.unique().tolist()
SourceValues(found) ==
    drop_duplicates([i \in 1..Len(found) |-> found[i].current_source])

\* line 198: the symbols found with one source value
SymbolsWith(found, source) ==
    {found[i].symbol : i \in {j \in 1..Len(found) : found[j].current_source = source}}

\* lines 197-208: the passes the for loop makes; `return 1` at line 208 is a
\* statement of the loop body, so the first pass is the last
LoopPasses(sources) == 1

\* update_source_to_database, lines 192-209; nok = the updates the store
\* executes before one raises
update_source_to_database ==
    /\ npc = "update"
    /\ npc' = "returned"
    /\ IF Len(found_data) = 0
       THEN nret' = 0 /\ UNCHANGED <<current_source, source_updates>>
       ELSE LET sources == SourceValues(found_data)
                passes == LoopPasses(sources)
            IN \E nok \in 0..passes :
                 /\ current_source' =
                      [s \in DOMAIN current_source |->
                          IF \E i \in 1..nok : s \in SymbolsWith(found_data, sources[i])
                          THEN CHOOSE v \in {1, 2} :
                                  \E i \in 1..nok :
                                     sources[i] = v /\ s \in SymbolsWith(found_data, v)
                          ELSE current_source[s]]
                 /\ source_updates' =
                      source_updates \o
                         [i \in 1..nok |->
                             [source |-> sources[i],
                              symbols |-> SymbolsWith(found_data, sources[i])]]
                 /\ nret' = IF nok = passes THEN 1 ELSE -1
    /\ UNCHANGED <<null_symbols, wsj_symbols, null_todo, found_data>>
    /\ UNCHANGED NotSources

NextSources ==
    \/ CheckNullSymbol
    \/ CheckNullReturns
    \/ update_source_to_database

UnitsIdle == LimiterIdle /\ ParserIdle /\ RulesIdle /\ SourcesIdle

InitSources ==
    SourcesStart /\ LimiterIdle /\ ParserIdle /\ RulesIdle /\ ScraperIdle
                 /\ ResolverIdle /\ CleanerIdle /\ StoreIdle

InitScraper == ScraperStart /\ ResolverIdle /\ CleanerIdle /\ StoreIdle /\ UnitsIdle

InitCutoff == CutoffStart /\ ResolverIdle /\ CleanerIdle /\ StoreIdle /\ UnitsIdle

InitResolver == ResolverStart /\ ScraperIdle /\ CleanerIdle /\ UnitsIdle

InitCleaner ==
    /\ CleanerStart(RawTables(NumRecords, Shapes) \cup {<< >>},
                    {{}} \cup {{i} : i \in 1..NumRecords})
    /\ ScraperIdle /\ ResolverIdle /\ UnitsIdle

\* a table of three batches, and a store that refuses no batch or one of them
InitSync ==
    /\ CleanerStart(RawTables(3 * BatchSize, SyncShapes),
                    {{}} \cup {Batch(k) : k \in 1..3})
    /\ ScraperIdle /\ ResolverIdle /\ UnitsIdle

InitLimiter ==
    LimiterStart /\ ParserIdle /\ RulesIdle /\ ScraperIdle /\ ResolverIdle /\ CleanerIdle /\ StoreIdle
                 /\ SourcesIdle

InitParser ==
    ParserStart /\ LimiterIdle /\ RulesIdle /\ ScraperIdle /\ ResolverIdle /\ CleanerIdle
                /\ StoreIdle /\ SourcesIdle

InitRules ==
    RulesStart /\ LimiterIdle /\ ParserIdle /\ ScraperIdle /\ ResolverIdle /\ CleanerIdle
               /\ StoreIdle /\ SourcesIdle

SpecScraper == InitScraper /\ [][NextScraper]_vars

SpecLimiter == InitLimiter /\ [][NextLimiter]_vars

SpecParser == InitParser /\ [][NextParser]_vars

SpecRules == InitRules /\ [][NextRules]_vars

SpecSources == InitSources /\ [][NextSources]_vars

SpecCutoff == InitCutoff /\ [][NextScraper]_vars

SpecResolver == InitResolver /\ [][NextResolver]_vars

SpecCleaner == InitCleaner /\ [][NextCleaner]_vars

SpecSync == InitSync /\ [][NextCleaner]_vars

\* the two programs that write wsj_format to idx_company_profile
SpecFormats ==
    (InitCleaner \/ InitResolver) /\ [][NextCleaner \/ NextResolver]_vars

(* ====================================================================== *)
(* Claims about WSJScraper.get_statement_data                              *)
(* ====================================================================== *)
\* the SyncCursor of a symbol, NoDate when the store has none
Cursor(s) == IF s \in DOMAIN latest_date_df THEN latest_date_df[s] ELSE NoDate

\* the dates of h strictly greater than d, in their original order
DatesAfter(h, d) ==
    LET F[i \in 0..Len(h)] ==
          IF i = 0 THEN << >>
          ELSE IF h[i] > d THEN Append(F[i - 1], h[i]) ELSE F[i - 1]
    IN F[Len(h)]

Descending(h) == \A i \in 1..(Len(h) - 1) : h[i] > h[i + 1]

\* the iteration of hist.sym has read its header and built symbol_dd from it
BuiltOwn == hist.own /\ spc \in {"table2", "table3", "merge"}

RowsOf(s) == {i \in 1..Len(result_dict["symbol"]) : result_dict["symbol"][i] = s}

\* C1 as claimed: the rows a symbol S with cursor D contributes carry exactly
\* the header dates strictly greater than D, in their original order, for any
\* fetched header date sequence; a symbol whose newest date is <= D
\* contributes no rows.
C1_CutoffAsClaimed ==
    /\ BuiltOwn => symbol_dd["date"] = DatesAfter(hist.header, Cursor(hist.sym))
    /\ hist.out = "current" => RowsOf(hist.sym) = {}

\* C1 amended: the rows built for S carry the longest prefix of the header
\* whose dates are all strictly greater than D (every date greater than D when
\* the header is descending); no row of S in the raw table is dated <= D;
\* a symbol whose newest date is <= D contributes no rows.
C1_CutoffPrefix ==
    /\ BuiltOwn =>
         LET h == hist.header
             k == symbol_dd["date"]
             d == Cursor(hist.sym)
         IN /\ Len(k) <= Len(h)
            /\ \A i \in 1..Len(k) : k[i] = h[i] /\ k[i] > d
            /\ Len(k) < Len(h) => h[Len(k) + 1] <= d
            /\ Descending(h) => k = DatesAfter(h, d)
            /\ symbol_dd["symbol"] = Repeat(hist.sym, Len(k))
    /\ \A i \in 1..Len(result_dict["date"]) :
         result_dict["date"][i] > Cursor(result_dict["symbol"][i])
    /\ hist.out = "current" => RowsOf(hist.sym) = {}

\* witness of C1: a header with a date <= D between two dates > D was cut
C1_Witness ==
    /\ BuiltOwn
    /\ Cursor(hist.sym) # NoDate
    /\ Len(symbol_dd["date"]) < Len(DatesAfter(hist.header, Cursor(hist.sym)))
    /\ spc = "merge"

\* C9 as claimed: after the handling of any symbol has ended, every column
\* list of result_dict is as long as its 'symbol' column.
C9_Rectangular ==
    spc \in {"fetch", "returned", "raised"} => Rectangular(result_dict)

\* C10 as claimed: a fetch or parse error for one symbol stays local to it;
\* the pass never ends before every symbol of the list has been processed.
C10_ErrorsStayLocal ==
    spc = "raised" => idx > Len(symbols)


\* C11 as claimed: a symbol whose iteration ended on a parse error of its
\* first, second or third sub-table, and so has no rows in result_dict, is in
\* missing_symbols when the loop moves on.
C11_ParseErrorMarksMissing ==
    (hist.out \in {"notables", "missing", "cancelled"} /\ RowsOf(hist.sym) = {})
    => hist.sym \in missing_symbols

\* C12: a symbol whose page lacks the statement container is in
\* missing_symbols, was fetched once, and has no rows in result_dict.
C12_PageNotFoundPermanent ==
    hist.out = "pagenotfound" =>
       /\ hist.sym \in missing_symbols
       /\ hist.sym \in warned
       /\ attempts = 1
       /\ RowsOf(hist.sym) = {}

\* witness of C12: a later symbol of the list met PageNotFound
C12_Witness ==
    /\ hist.out = "pagenotfound"
    /\ idx > 2
    /\ Len(result_dict["symbol"]) > 0

\* C13 as claimed: a symbol whose container held no data tables was fetched
\* max_retry times before it was given up, and no symbol more often.
C13_TableNotFoundRetried ==
    /\ attempts <= max_retry
    /\ hist.out = "notables" => attempts = max_retry

\* C14 as claimed: in every window of TIME_PERIOD seconds the scraper has
\* issued at most CALLS page requests.
C14_RequestsRateLimited ==
    \A t \in 0..MaxClock : InWindow(t) <= CALLS

\* C15 as claimed: a cell whose text is '-' or '' is converted to null,
\* whether or not the field is an EPS field.
C15_PlaceholderToNull ==
    \A k \in 1..Len(converted) :
        col_values[k] \in {<<"-">>, << >>} => converted[k] = None

\* the magnitude a printed number stands for
Magnitude(parts) ==
    Float(DigitsValue(parts.lead \o parts.group \o parts.frac), 0 - Len(parts.frac))

Negated(f) == [f EXCEPT !.m = 0 - f.m]

Millions(f) == Float(f.m, f.e + 6)

\* C16: a converted cell '(n)' is -n * 1,000,000 on a non-EPS row and -n on
\* an EPS row, and no cell '(n)' makes convert_abbr raise.
C16_SignAndScale ==
    \A k \in 1..Len(col_values) : \A parts \in NumberParts :
        (parts.paren /\ Render(parts) = col_values[k]) =>
            /\ k <= Len(converted) =>
                  converted[k] = IF eps_true THEN Negated(Magnitude(parts))
                                 ELSE Negated(Millions(Magnitude(parts)))
            /\ (ppc \in {"raised", "missing"} => k # Len(converted) + 1)

\* witness of C16: a stored row with '(500)' as -500,000,000 or '(5.5)' of an
\* EPS row as -5.5, next to a cell with a thousands separator
C16_Witness ==
    /\ ppc = "stored"
    /\ \/ /\ ~eps_true
          /\ col_values[1] = <<"(", "5", "0", "0", ")">>
          /\ converted[1] = [t |-> "float", m |-> 0 - 5, e |-> 8]
       \/ /\ eps_true
          /\ col_values[1] = <<"(", "5", ".", "5", ")">>
          /\ converted[1] = [t |-> "float", m |-> 0 - 55, e |-> 0 - 1]
    /\ Contains(col_values[2], ",")
    /\ startswith(col_values[2], "(")

\* C17 as claimed: a non-EPS cell the scaled parse rejected is logged and
\* converted by the unscaled parse, and its symbol is not marked missing.
C17_FallbackKeepsRecord ==
    \A k \in conv_warned :
        /\ ppc \notin {"raised", "missing"}
        /\ ~row_missing

\* C25: when no page of the pass showed one date in two columns of its header,
\* the raw table the pass returns has no two rows with the same
\* (symbol, date).
C25_KeysUnique ==
    (spc = "returned" /\ ~repeated) =>
       \A i, j \in 1..Len(raw_data["symbol"]) :
          (raw_data["symbol"][i] = raw_data["symbol"][j]
             /\ raw_data["date"][i] = raw_data["date"][j]) => i = j

\* C26: a pass in which every symbol was left as already current (line 290)
\* returns, without raising, an empty raw table.
C26_AllCurrentReturnsEmpty ==
    (idx > Len(symbols) /\ spc \in {"returned", "raised"}
        /\ skipped = Range(symbols))
       => (spc = "returned" /\ raw_data = EmptyDF)

(* ====================================================================== *)
(* Claims about the cleaning rules                                         *)
(* ====================================================================== *)
Absent(v) == v = None \/ v = Hyphen

\* C18: in the table _clean_nulls returns, a row whose two debt columns were
\* both absent has both null, a row with one of them absent has 0 there and
\* the other as it was, and a row with both present has both as they were.
C18_DebtCoFill ==
    ~nulls_out.none =>
       \A i \in 1..Len(rule_data) :
          LET s == rule_data[i]["short_term_debt"]
              l == rule_data[i]["long_term_debt"]
              s2 == nulls_out.rows[i]["short_term_debt"]
              l2 == nulls_out.rows[i]["long_term_debt"]
          IN  /\ (Absent(s) /\ Absent(l)) => (s2 = None /\ l2 = None)
              /\ (Absent(s) /\ ~Absent(l)) => (s2 = Val(0) /\ l2 = l)
              /\ (~Absent(s) /\ Absent(l)) => (s2 = s /\ l2 = Val(0))
              /\ (~Absent(s) /\ ~Absent(l)) => (s2 = s /\ l2 = l)

\* witness of C18: one table with a row of two absent debts, one of them the
\* placeholder, and a row with only the long-term debt present
C18_Witness ==
    /\ ~nulls_out.none
    /\ rule_data[1]["short_term_debt"] = Hyphen
    /\ rule_data[1]["long_term_debt"] = None
    /\ nulls_out.rows[1]["short_term_debt"] = None
    /\ rule_data[2]["short_term_debt"] = None
    /\ rule_data[2]["long_term_debt"] = Val(2)
    /\ nulls_out.rows[2]["short_term_debt"] = Val(0)
    /\ nulls_out.rows[2]["long_term_debt"] = Val(2)

\* C19: in a cleaned table, a row of format 3 has the source's interest
\* expense net of interest capitalized as interest_expense_non_operating, and
\* pretax_income plus that value as ebit (null when either is null).
C19_Format3Interest ==
    qpc = "done" =>
       \A i \in 1..Len(rule_data) :
          rule_data[i]["wsj_format"] = 3 =>
             /\ final_out.rows[i]["interest_expense_non_operating"] =
                   rule_data[i]["interest_expense_net_of_interest_capitalized"]
             /\ final_out.rows[i]["ebit"] =
                   Plus(final_out.rows[i]["pretax_income"],
                        rule_data[i]["interest_expense_net_of_interest_capitalized"])

\* witness of C19: a cleaned row of format 3 whose source had no
\* interest_expense_non_operating, with ebit = 3 + 1
C19_Witness ==
    /\ qpc = "done"
    /\ rule_data[1]["wsj_format"] = 3
    /\ rule_data[1]["interest_expense_non_operating"] = None
    /\ rule_data[1]["interest_expense_net_of_interest_capitalized"] = Val(1)
    /\ rule_data[1]["pretax_income"] = Val(3)
    /\ final_out.rows[1]["interest_expense_non_operating"] = Val(1)
    /\ final_out.rows[1]["ebit"] = Val(4)
    /\ rule_data[2]["wsj_format"] = 3
    /\ rule_data[2]["interest_expense_non_operating"] = Val(7)

\* C20 as claimed: in a cleaned table, a row whose total_debt was null or '-'
\* has the sum of its co-filled debts as total_debt, and any other row has
\* the total_debt of the source.
C20_TotalDebtDerived ==
    qpc = "done" =>
       \A i \in 1..Len(rule_data) :
          final_out.rows[i]["total_debt"] =
             IF Absent(rule_data[i]["total_debt"])
               THEN Plus(nulls_out.rows[i]["short_term_debt"],
                         nulls_out.rows[i]["long_term_debt"])
               ELSE rule_data[i]["total_debt"]

NullIfHyphen(v) == IF v = Hyphen THEN None ELSE v

EntriesOf(s) == {i \in 1..Len(format_data) : format_data[i].symbol = s}

Matched == \E i \in 1..Len(probed) : probed[i].outcome = "match"

\* the handling of cur has ended (lines 91-127 ran to their end)
SymbolEnded == cur # "" /\ rpc \in {"idle", "checked", "updated"}

\* C7: the probes of a symbol follow the order (quarter, balance-sheet),
\* (quarter, income-statement), (annual, balance-sheet), (annual,
\* income-statement), starting with the first; no probe follows the probe
\* whose page held the discriminant label, and that symbol has exactly one
\* (symbol, code) entry, with the code of the label found.
C7_FirstHitWins ==
    /\ probed # << >> => probed[1].probe = 1
    /\ \A i \in 2..Len(probed) : probed[i].probe > probed[i - 1].probe
    /\ \A i \in 1..Len(probed) :
         probed[i].outcome = "match" =>
            /\ i = Len(probed)
            /\ Cardinality(EntriesOf(cur)) = 1
            /\ \A e \in EntriesOf(cur) :
                 format_data[e].wsj_format = wsj_formats[Probes[probed[i].probe].metric]
    /\ \A s \in DOMAIN profile : Cardinality(EntriesOf(s)) <= 1

\* witness of C7: a symbol matched on its third probe and its handling ended
C7_Witness ==
    /\ SymbolEnded
    /\ Len(probed) = 3
    /\ probed[3].outcome = "match" /\ probed[3].probe = 3
    /\ Cardinality(EntriesOf(cur)) = 1

\* C8 as claimed: a symbol with no match on any probed page and at least one
\* page fetched and parsed gets the entry (symbol, 1), whatever its other
\* probes came to.
C8_DefaultAsClaimed ==
    (/\ SymbolEnded
     /\ ~Matched
     /\ \E i \in 1..Len(probed) : probed[i].outcome = "nomatch")
    => \E e \in EntriesOf(cur) : format_data[e].wsj_format = 1

\* the codes a run over cur alone records for it on the page outcomes of
\* probed: the code of the match; nothing after a probe that set found_flag
\* or when the last probe that returned gave no tables; 1 otherwise
AloneCodes ==
    LET back == {i \in 1..Len(probed) : Assigns(probed[i].outcome)}
        last == CHOOSE i \in back : \A j \in back : j <= i
    IN  IF Matched
          THEN {wsj_formats[Probes[probed[i].probe].metric] :
                   i \in {j \in 1..Len(probed) : probed[j].outcome = "match"}}
        ELSE IF \E i \in 1..Len(probed) : probed[i].outcome \in {"pagenotfound", "notable"}
          THEN {}
        ELSE IF back = {} THEN {}
        ELSE IF probed[last].outcome = "tablenotfound" THEN {}
        ELSE {1}

\* C23 as claimed: the codes recorded for a symbol are those a run over that
\* symbol alone records on the same page outcomes, wherever the symbol comes
\* in the iteration of the set.
C23_ResolutionStable ==
    SymbolEnded =>
       {format_data[e].wsj_format : e \in EntriesOf(cur)} = AloneCodes

\* C27 as claimed: a symbol has the entry (symbol, 1) only if one of its own
\* probes returned sub-tables.
C27_OwnFetchesOnly ==
    SymbolEnded =>
       ((\E e \in EntriesOf(cur) : format_data[e].wsj_format = 1)
          => \E i \in 1..Len(probed) :
                probed[i].outcome \in {"notable", "rowerror", "nomatch", "match"})

\* balance_metrics and income_metrics: the raw field a discriminant line
\* item of a page is scraped into
metric_field ==
    [label \in DOMAIN wsj_formats |->
        IF label = "Total Cash & Due from Banks"
        THEN "total_cash_and_due_from_banks"
        ELSE "operating_income_before_interest_expense"]

\* the part of a scraped record _create_wsj_format looks at, for pages that
\* carry the line items `lines` and a symbol whose recorded code is `code`
ScrapedFrom(lines, code) ==
    [f \in {metric_field[l] : l \in DOMAIN wsj_formats} |->
        IF \E l \in lines : metric_field[l] = f THEN Num ELSE None]
    @@ [wsj_format |-> code]

\* C29 as claimed: for a symbol whose pages carry both discriminant line
\* items, the code check_wsj_format records equals the code
\* _create_wsj_format derives from the record scraped from the same pages.
C29_SamePrecedence ==
    (SymbolEnded /\ probed # << >>) =>
       LET last == probed[Len(probed)]
           lines == pages[Probes[last.probe].period]
       IN (last.outcome = "match" /\ lines = DOMAIN wsj_formats) =>
             \A e \in EntriesOf(cur) :
                DetectFormat(ScrapedFrom(lines, format_data[e].wsj_format))
                   = format_data[e].wsj_format

\* C30 as claimed: when update_source_to_database returns 1, every symbol
\* of found_data has, in the store, the current_source it was found with.
C30_EverySourceUpdated ==
    (npc = "returned" /\ nret = 1) =>
       \A e \in 1..Len(found_data) :
          current_source[found_data[e].symbol] = found_data[e].current_source

(* ====================================================================== *)
(* Claims about WSJCleaner and main                                        *)
(* ====================================================================== *)
\* the cleaned rows whose dates lie in the k-th batch
BatchRows(k) ==
    {clean_data.rows[i] : i \in {j \in 1..Len(clean_data.rows) :
                                    clean_data.rows[j]["date"] \in Batch(k)}}

\* C2 as claimed: when the cleaned table of three batches was handed to the
\* store and the store refuses the second batch, batches 1 and 3 are in the
\* store, a fallback file holds batch 2 and nothing else, and the call
\* returned failure.
C2_BatchedUpsert ==
    (clean_flag /\ sent # << >> /\ rejected = Batch(2))
    => /\ financials = BatchRows(1) \cup BatchRows(3)
       /\ \E f \in files : Range(f.rows) = BatchRows(2)
       /\ db_success_flag = "False"

\* a run that got past scraping with a non-empty table is over: main has
\* ended, or a caller has had the table cleaned and asked for the save
RunOver ==
    \/ mpc = "crashed"
    \/ mpc = "built" /\ cleaned # "" /\ db_success_flag # ""

\* C3 as claimed: when such a run is over, the store upsert was confirmed or
\* a local data file has been written.
C3_RunLeavesResult ==
    RunOver => db_success_flag = "True" \/ files # {}

CleanFailed == cleaned \in {"nulls", "enrich", "cast"}

C6_OneCodePerSymbol ==
    /\ cleaned # "" =>
         \A i, j \in 1..Len(cleaner_raw_data) :
            cleaner_raw_data[i]["symbol"] = cleaner_raw_data[j]["symbol"]
            => cleaner_raw_data[i]["wsj_format"] = cleaner_raw_data[j]["wsj_format"]
    /\ OneRowPerSymbol(handed)

\* what a cleaner built now on result_df and ticker_info has as clean_data
\* after its first clean()
FreshClean ==
    CleanDataAfter(
        MapRows(SetFormat,
                [i \in 1..Len(result_df) |->
                    Set(result_df[i], "wsj_format", ticker_info[result_df[i]["symbol"]])]),
        [none |-> TRUE, rows |-> << >>])

\* C22: after one call of clean() or more, whatever was called in between,
\* clean_data is the table a fresh cleaner has after its first call on the
\* same raw table and the same formats.
C22_CleanDeterministic == cleans >= 1 => clean_data = FreshClean

\* witness of C22: clean() was called twice on a cleaner that holds a cleaned
\* table, flags of the first call, and an upsert made in between
C22_Witness ==
    /\ cleans = 2
    /\ clean_flag
    /\ changed_flag
    /\ sent # << >>
    /\ Len(clean_data.rows) = NumRecords

\* C24 as claimed: a file of cleaned records exists only once an upsert of
\* save_data_to_database has failed.
C24_FileOnlyAfterFailedUpsert == files # {} => db_success_flag = "False"

\* C24: clean() itself writes a file of the records whenever it gets past
\* the projection, before any upsert; no file exists before the first
\* clean(); and a save_data_to_database whose upsert succeeds writes none.
C24_FileWrittenByClean ==
    /\ [](cleaned \in {"cast", "ok"} => files # {})
    /\ [](files # {} => cleans >= 1)
    /\ [][(save_data_to_database /\ db_success_flag' = "True") => files' = files]_vars

\* witness of C24: one clean(), one upsert, which succeeded, and the file
\* clean() wrote on its way
C24_Witness ==
    /\ cleans = 1
    /\ cleaned = "ok"
    /\ sent # << >>
    /\ db_success_flag = "True"
    /\ \E f \in files : f.name = "wsj_partialclean_data" /\ f.rows = clean_data.rows

\* the metric cells of a row: every column but the key and the format code
MetricCells(row) == DOMAIN row \ {"symbol", "date", "wsj_format"}

\* a number, a null or the '-' placeholder
PlainCell(v) == v.t \in {"None", "num"} \/ v = Hyphen

\* the two fields outside the placeholder-to-null list that feed a derivation
DerivationInputs ==
    {"selling_general_and_admin_expenses_and_other",
     "interest_expense_net_of_interest_capitalized"}

\* C28: a clean() over a non-empty raw table whose metric cells are numbers,
\* nulls or '-' placeholders, the placeholders standing only in
\* selling_general_and_admin_expenses_and_other or
\* interest_expense_net_of_interest_capitalized, runs to its end and sets
\* clean_flag.
C28_PlaceholderNeverAborts ==
    (/\ cleans > 0
     /\ cleaner_raw_data # << >>
     /\ \A i \in 1..Len(cleaner_raw_data) :
           \A c \in MetricCells(cleaner_raw_data[i]) :
              /\ PlainCell(cleaner_raw_data[i][c])
              /\ cleaner_raw_data[i][c] = Hyphen => c \in DerivationInputs)
       => (cleaned = "ok" /\ clean_flag)

====
